---- MODULE Spec2Model ----
(***************************************************************************)
(* A model of spectool's conformance-test engine: the target resolver      *)
(* (src/conformance/test.rs, src/wdl.rs), the output validator             *)
(* (src/conformance/test/validation.rs), the execution driver              *)
(* (src/command/test.rs), the command substitution (src/shell.rs), the     *)
(* extraction of fixtures and resources from the markdown                  *)
(* (src/conformance/test.rs, src/conformance/resource.rs) and the compile  *)
(* step (src/conformance/test/runner.rs).                                  *)
(*                                                                         *)
(* Strings are sequences of one-character strings, so that splitting an    *)
(* input key on `.`, joining a JSON path and taking the file name of a     *)
(* path are computed rather than assumed.                                  *)
(***************************************************************************)
EXTENDS Integers, Sequences, FiniteSets, TLC

VARIABLES
    src,              \* Test.src: the WDL source, as a sequence of lines
    input,            \* Test.input: Option<Value>
    config_target,    \* Test.config.target: Option<String>
    inferred_target,  \* Test.inferred_target: Option<wdl::Target>
    resolved,         \* what infer_and_validate_target returned
    expected,         \* validate_outputs: the expected value
    actual,           \* validate_outputs: the actual value
    exclude,          \* validate_outputs: the exclusion list
    disk,             \* the paths that exist on the local filesystem
    expected_filtered, \* validate_outputs: filter_outputs(expected, exclude)
    actual_filtered,  \* validate_outputs: filter_outputs(actual, exclude)
    outcome,          \* what validate_outputs returned
    tests,            \* runner.tests(): the compiled fixtures, in document order
    args,             \* the Args of the `test` subcommand
    index,            \* the position of the `for test in runner.tests()` loop
    pc,               \* where main stands: in Runner::compile ("prepare",
                      \* "resources", "write_resources", "compile_tests"),
                      \* in its loop over the fixtures
                      \* ("loop", "invoke", "evaluate"), or returned ("done",
                      \* "failed")
    workdir,          \* the files of the working directory
    invoked,          \* the fixtures Command::output() was called for, in order
    output,           \* what Command::output() returned for the current fixture
    results,          \* results: Vec<(String, TestResult)>
    summary,          \* the counts main prints and the badge it outputs
    run_result,       \* what main returned
    call,             \* the arguments substitute() is called with
    command,          \* the command substitute() returned
    contents,         \* the markdown of the specification, as tokens
    options,          \* --force and --inject-wdl-version
    root,             \* the files of root_dir, the conformance test directory
    resources,        \* what Resources::compile returned
    cursor,           \* the position of the loop Runner::compile is in
    compiled          \* what Runner::compile returned

vars == <<src, input, config_target, inferred_target, resolved,
          expected, actual, exclude, disk, expected_filtered, actual_filtered,
          outcome,
          tests, args, index, pc, workdir, invoked, output, results, summary,
          run_result,
          call, command,
          contents, options, root, resources, cursor, compiled>>

resolverVars == <<src, input, config_target, inferred_target, resolved>>
validatorVars ==
    <<expected, actual, exclude, disk, expected_filtered, actual_filtered, outcome>>
driverVars ==
    <<tests, args, index, pc, workdir, invoked, output, results, summary,
      run_result>>
shellVars == <<call, command>>
compileVars == <<contents, options, root, resources, cursor, compiled>>

-----------------------------------------------------------------------------
(* Bounds of the model.                                                    *)

\* The longest WDL source, in lines.
MaxLines == 3
\* The largest number of keys of a fixture's input object.
MaxInputKeys == 2
\* The largest JSON value handed to the validator, in nodes.
MaxNodes == 3
\* The longest exclusion list.
MaxExclude == 2
\* The largest number of fixtures of a suite.
MaxTests == 2
\* The longest command template, in pieces (a placeholder or a character).
MaxPieces == 2
MaxBlocks == 2

-----------------------------------------------------------------------------
(* Option<T> and Result<T>.                                                *)

None == [tag |-> "None"]
Some(v) == [tag |-> "Some", val |-> v]
IsSome(o) == o.tag = "Some"
IsNone(o) == o.tag = "None"

NoName == << >>
Pending == [state |-> "pending"]
Ok == [state |-> "ok"]
\* anyhow errors are told apart by their message; `name` is the one name the
\* message interpolates besides the test's file name (a target or a prefix).
Err(kind, name) == [state |-> "err", kind |-> kind, name |-> name]
IsErr(r) == r.state = "err"

-----------------------------------------------------------------------------
(* Strings.                                                                *)

Str1(c) == <<c>>
Dot == "."
Slash == "/"

RECURSIVE IndexOf(_, _, _)
\* The position of the first `c` in s at or after i, 0 if there is none.
IndexOf(s, c, i) ==
    IF i > Len(s) THEN 0
    ELSE IF s[i] = c THEN i
    ELSE IndexOf(s, c, i + 1)

\* The position of the last `c` in s at or before i, 0 if there is none.
RECURSIVE LastIndexOf(_, _, _)
LastIndexOf(s, c, i) ==
    IF i < 1 THEN 0
    ELSE IF s[i] = c THEN i
    ELSE LastIndexOf(s, c, i - 1)

\* Variant: the key is split at its last `.` (rsplit) instead of its first.
SplitFirst_at_last_dot(key) ==
    LET i == LastIndexOf(key, Dot, Len(key))
    IN  IF i = 0 THEN key ELSE SubSeq(key, 1, i - 1)

\* key.split('.').next(): the text before the first `.`, the whole key when
\* it has no `.`; never None.
SplitFirst(key) ==
    LET i == IndexOf(key, Dot, 1)
    IN  IF i = 0 THEN key ELSE SubSeq(key, 1, i - 1)

SeqContains(s, x) == \E i \in 1..Len(s) : s[i] = x

-----------------------------------------------------------------------------
(* src/wdl.rs                                                              *)

TaskTarget(n) == [kind |-> "Task", name |-> n]
WorkflowTarget(n) == [kind |-> "Workflow", name |-> n]

\* A source line: a workflow declaration `workflow <name> {`, a task
\* declaration `task <name> {`, or any other text.
WorkflowLine(n) == [decl |-> "workflow", name |-> n]
TaskLine(n) == [decl |-> "task", name |-> n]
OtherLine == [decl |-> "other", name |-> NoName]

RECURSIVE FirstWorkflow(_, _)
\* WORKFLOW_REGEX.captures(source): the first match only.
FirstWorkflow(source, i) ==
    IF i > Len(source) THEN None
    ELSE IF source[i].decl = "workflow" THEN Some(source[i].name)
    ELSE FirstWorkflow(source, i + 1)

RECURSIVE AllTasks(_, _)
\* TASK_REGEX.captures_iter(source): every match, in order.
AllTasks(source, i) ==
    IF i > Len(source) THEN << >>
    ELSE IF source[i].decl = "task"
         THEN <<source[i].name>> \o AllTasks(source, i + 1)
         ELSE AllTasks(source, i + 1)

parse_wdl_declarations(source) ==
    [workflow |-> FirstWorkflow(source, 1), tasks |-> AllTasks(source, 1)]

\* Variant: a lone task takes precedence over the workflow.
single_target_task_first(decls) ==
    IF Len(decls.tasks) = 1 THEN Some(TaskTarget(decls.tasks[1]))
    ELSE IF IsSome(decls.workflow) THEN Some(WorkflowTarget(decls.workflow.val))
    ELSE None

\* Variant: without a workflow, the first of several tasks is the target.
single_target_first_task(decls) ==
    IF IsSome(decls.workflow) THEN Some(WorkflowTarget(decls.workflow.val))
    ELSE IF Len(decls.tasks) >= 1 THEN Some(TaskTarget(decls.tasks[1]))
    ELSE None

\* Variant: the workflow is not a target; only a lone task is.
single_target_lone_task_only(decls) ==
    IF Len(decls.tasks) = 1 THEN Some(TaskTarget(decls.tasks[1]))
    ELSE None

\* WdlDeclarations::single_target
single_target(decls) ==
    IF IsSome(decls.workflow) THEN Some(WorkflowTarget(decls.workflow.val))
    ELSE IF Len(decls.tasks) = 1 THEN Some(TaskTarget(decls.tasks[1]))
    ELSE None

-----------------------------------------------------------------------------
(* serde_json::Value                                                       *)

JNull == [kind |-> "null"]
JBool(b) == [kind |-> "boolean", b |-> b]
\* A number is whole + eps * (f64::EPSILON / 2): the whole numbers and the
\* values within a few half-epsilons of them that the tolerance is about.
JNum(whole, eps) == [kind |-> "number", whole |-> whole, eps |-> eps]
JStr(s) == [kind |-> "string", s |-> s]
JArr(items) == [kind |-> "array", items |-> items]
\* An object is a function from its keys to their values.
JObj(fields) == [kind |-> "object", fields |-> fields]

EmptyMap == << >>

-----------------------------------------------------------------------------
(* src/conformance/test.rs: Test::infer_target_from_input                  *)

\* Ok(Option<Target>) or Err.
OkOpt(o) == [state |-> "ok", val |-> o]

infer_target_from_input(inp, decls) ==
    IF IsNone(inp) THEN OkOpt(None)
    ELSE IF inp.val.kind # "object" THEN OkOpt(None)
    ELSE IF DOMAIN inp.val.fields = {} THEN OkOpt(None)
    ELSE
        LET prefixes == {SplitFirst(key) : key \in DOMAIN inp.val.fields}
        IN  IF Cardinality(prefixes) = 1 THEN
                LET prefix == CHOOSE p \in prefixes : TRUE
                IN  IF IsSome(decls.workflow) /\ decls.workflow.val = prefix
                    THEN OkOpt(Some(WorkflowTarget(prefix)))
                    ELSE IF SeqContains(decls.tasks, prefix)
                    THEN OkOpt(Some(TaskTarget(prefix)))
                    ELSE Err("input prefix does not match any workflow or task", prefix)
            ELSE IF Cardinality(prefixes) > 1 THEN
                Err("ambiguous input prefixes", NoName)
            ELSE OkOpt(None)

-----------------------------------------------------------------------------
(* src/conformance/test.rs: Test::infer_and_validate_target                *)

\* The value of the call: the Result it returns and the inferred_target it
\* leaves in the test (`keep` when the call does not assign it).
Resolution(result, target) == [result |-> result, target |-> target]

\* The arms of `match (single_target, input_inferred_target, config_target)`,
\* each with its pattern and guard, in the order the match tries them.

\* Variant: an explicit target that names the single target is let through.
ArmConfigWithSingle_unless_same(single, cfg) ==
    IsSome(single) /\ IsSome(cfg) /\ single.val.name # cfg.val

\* (Some(_), _, Some(_))
ArmConfigWithSingle(single, cfg) ==
    IsSome(single) /\ IsSome(cfg)

\* (_, Some(_), Some(_))
ArmConfigWithInput(inferred, cfg) ==
    IsSome(inferred) /\ IsSome(cfg)

\* (Some(target), None, None)
ArmSingleOnly(single, inferred, cfg) ==
    IsSome(single) /\ IsNone(inferred) /\ IsNone(cfg)

\* (None, Some(target), None)
ArmInputOnly(single, inferred, cfg) ==
    IsNone(single) /\ IsSome(inferred) /\ IsNone(cfg)

\* Variant: the guard `single == *input` is missing.
ArmBothAgree_unguarded(single, inferred, cfg) ==
    IsSome(single) /\ IsSome(inferred) /\ IsNone(cfg)

\* (Some(single), Some(input), None) if single == *input
ArmBothAgree(single, inferred, cfg) ==
    IsSome(single) /\ IsSome(inferred) /\ IsNone(cfg) /\ single.val = inferred.val

\* (Some(single), Some(input), None)
ArmBothDisagree(single, inferred, cfg) ==
    IsSome(single) /\ IsSome(inferred) /\ IsNone(cfg)

\* (None, None, None) if !decls.tasks().is_empty()
ArmTargetRequired(decls, single, inferred, cfg) ==
    IsNone(single) /\ IsNone(inferred) /\ IsNone(cfg) /\ decls.tasks # << >>

\* (None, None, Some(target)) if !decls.tasks().is_empty()
ArmExplicit(decls, single, inferred, cfg) ==
    IsNone(single) /\ IsNone(inferred) /\ IsSome(cfg) /\ decls.tasks # << >>

\* Variant: the explicit target is not looked up among the tasks.
ExplicitTarget_unchecked(decls, target, keep) ==
    Resolution(Ok, Some(TaskTarget(target)))

\* Variant: the explicit target is taken for a workflow.
ExplicitTarget_as_workflow(decls, target, keep) ==
    IF ~SeqContains(decls.tasks, target)
    THEN Resolution(Err("target not found in tasks", target), keep)
    ELSE Resolution(Ok, Some(WorkflowTarget(target)))

\* The body of the explicit-target arm.
ExplicitTarget(decls, target, keep) ==
    IF ~SeqContains(decls.tasks, target)
    THEN Resolution(Err("target not found in tasks", target), keep)
    ELSE Resolution(Ok, Some(TaskTarget(target)))

\* Variant: the pattern is (None, None, None) instead of (None, None, _).
ArmNoDeclaration_without_config(decls, single, inferred, cfg) ==
    /\ IsNone(single) /\ IsNone(inferred) /\ IsNone(cfg)
    /\ decls.tasks = << >> /\ IsNone(decls.workflow)

\* (None, None, _) if decls.tasks().is_empty() && decls.workflow().is_none()
ArmNoDeclaration(decls, single, inferred, cfg) ==
    /\ IsNone(single) /\ IsNone(inferred)
    /\ decls.tasks = << >> /\ IsNone(decls.workflow)

MatchTarget(decls, single, inferred, cfg, keep) ==
    IF ArmConfigWithSingle(single, cfg) THEN
        Resolution(Err("target should not be specified in config: inferred from the WDL", NoName), keep)
    ELSE IF ArmConfigWithInput(inferred, cfg) THEN
        Resolution(Err("target should not be specified in config: inferred from the input JSON", NoName), keep)
    ELSE IF ArmSingleOnly(single, inferred, cfg) THEN
        Resolution(Ok, single)
    ELSE IF ArmInputOnly(single, inferred, cfg) THEN
        Resolution(Ok, inferred)
    ELSE IF ArmBothAgree(single, inferred, cfg) THEN
        Resolution(Ok, single)
    ELSE IF ArmBothDisagree(single, inferred, cfg) THEN
        Resolution(Err("conflicting target inference", NoName), keep)
    ELSE IF ArmTargetRequired(decls, single, inferred, cfg) THEN
        Resolution(Err("target required in config", NoName), keep)
    ELSE IF ArmExplicit(decls, single, inferred, cfg) THEN
        ExplicitTarget(decls, cfg.val, keep)
    ELSE IF ArmNoDeclaration(decls, single, inferred, cfg) THEN
        Resolution(Err("no workflow or task found in WDL source", NoName), keep)
    ELSE
        Resolution(Err("unexpected target inference state", NoName), keep)

infer_and_validate_target(source, inp, cfg, keep) ==
    LET decls == parse_wdl_declarations(source)
        single == single_target(decls)
        inferred == infer_target_from_input(inp, decls)
    IN  IF IsErr(inferred) THEN Resolution(inferred, keep)
        ELSE MatchTarget(decls, single, inferred.val, cfg, keep)

-----------------------------------------------------------------------------
(* src/conformance/test/validation.rs: filter_outputs                      *)

\* The byte of a character: serde_json's Map is a BTreeMap, which iterates an
\* object's keys in byte order.
CharCode(c) ==
    CASE c = "." -> 46 [] c = "/" -> 47
      [] c = "0" -> 48 [] c = "1" -> 49 [] c = "2" -> 50 [] c = "3" -> 51
      [] c = "4" -> 52 [] c = "5" -> 53 [] c = "6" -> 54 [] c = "7" -> 55
      [] c = "8" -> 56 [] c = "9" -> 57
      [] c = "[" -> 91 [] c = "]" -> 93
      [] c = "a" -> 97 [] c = "b" -> 98 [] c = "c" -> 99 [] c = "d" -> 100
      [] c = "f" -> 102 [] c = "g" -> 103 [] c = "w" -> 119 [] c = "x" -> 120

RECURSIVE StrLess(_, _)
\* s < t in the order of String: byte by byte, a proper prefix first.
StrLess(s, t) ==
    IF t = << >> THEN FALSE
    ELSE IF s = << >> THEN TRUE
    ELSE IF CharCode(Head(s)) # CharCode(Head(t))
         THEN CharCode(Head(s)) < CharCode(Head(t))
         ELSE StrLess(Tail(s), Tail(t))

RECURSIVE SortedKeys(_)
\* map.keys(): the keys of a set of keys in iteration order.
SortedKeys(keys) ==
    IF keys = {} THEN << >>
    ELSE LET least == CHOOSE k \in keys : \A other \in keys \ {k} : StrLess(k, other)
         IN  <<least>> \o SortedKeys(keys \ {least})

\* `key` when the path is empty, `{path}.{key}` otherwise.
KeyPath(path, key) ==
    IF path = << >> THEN key ELSE path \o <<Dot>> \o key

\* Variant: a key is excluded by its bare name only.
IsExcluded_bare_name_only(excl, key, full_path) ==
    key \in excl

\* exclude.contains(key) || exclude.contains(&full_path)
IsExcluded(excl, key, full_path) ==
    key \in excl \/ full_path \in excl

\* Variant: only the first excluded key of each object is dropped.
RECURSIVE filter_outputs_first_only(_, _, _)
filter_outputs_first_only(value, excl, current_path) ==
    IF value.kind = "object" THEN
        LET hit == {key \in DOMAIN value.fields :
                        IsExcluded(excl, key, KeyPath(current_path, key))}
            kept == IF hit = {} THEN DOMAIN value.fields
                    ELSE (DOMAIN value.fields) \ {SortedKeys(hit)[1]}
        IN  JObj([key \in kept |->
                    filter_outputs_first_only(value.fields[key], excl,
                                              KeyPath(current_path, key))])
    ELSE IF value.kind = "array" THEN
        JArr([i \in 1..Len(value.items) |->
                filter_outputs_first_only(value.items[i], excl, current_path)])
    ELSE value

RECURSIVE filter_outputs_recursive(_, _, _)
filter_outputs_recursive(value, excl, current_path) ==
    IF value.kind = "object" THEN
        LET kept == {key \in DOMAIN value.fields :
                        ~IsExcluded(excl, key, KeyPath(current_path, key))}
        IN  JObj([key \in kept |->
                    filter_outputs_recursive(value.fields[key], excl,
                                             KeyPath(current_path, key))])
    ELSE IF value.kind = "array" THEN
        JArr([i \in 1..Len(value.items) |->
                filter_outputs_recursive(value.items[i], excl, current_path)])
    ELSE value

filter_outputs(value, excl) == filter_outputs_recursive(value, excl, << >>)

-----------------------------------------------------------------------------
(* src/conformance/test/validation.rs: normalize_path                      *)

RECURSIVE SplitOn(_, _)
\* s.split(c): the pieces of s between the occurrences of c.
SplitOn(s, c) ==
    LET i == IndexOf(s, c, 1)
    IN  IF i = 0 THEN <<s>>
        ELSE <<SubSeq(s, 1, i - 1)>> \o SplitOn(SubSeq(s, i + 1, Len(s)), c)

\* Path::components(), without the root: empty pieces (repeated or trailing
\* `/`) are dropped, and so is every `.` that is not the first piece of a
\* relative path.
PathComponents(s) ==
    LET pieces == SplitOn(s, Slash)
        relative == s # << >> /\ Head(s) # Slash
    IN  SelectSeq([i \in 1..Len(pieces) |-> [at |-> i, piece |-> pieces[i]]],
                  LAMBDA p : /\ p.piece # << >>
                             /\ (p.piece = <<Dot>> => (relative /\ p.at = 1)))

\* Path::file_name(): the last component when it is a normal one.
file_name(s) ==
    LET comps == PathComponents(s)
    IN  IF comps = << >> THEN None
        ELSE LET last == comps[Len(comps)].piece
             IN  IF last = <<Dot, Dot>> \/ last = <<Dot>> THEN None
                 ELSE Some(last)

normalize_path(s, fs) ==
    IF s \in fs
    THEN IF IsSome(file_name(s)) THEN file_name(s).val ELSE s
    ELSE s

-----------------------------------------------------------------------------
(* src/conformance/test/validation.rs: compare_json                        *)

\* f64::EPSILON, in the half-epsilons a number's `eps` counts.
EPSILON == 2

Abs(n) == IF n < 0 THEN -n ELSE n

\* Number::as_f64: exact for every number of the model.
as_f64(n) == [whole |-> n.whole, eps |-> n.eps]

\* (e_f64 - a_f64).abs() < f64::EPSILON
NumbersMatch(e, a) ==
    LET e_f64 == as_f64(e)
        a_f64 == as_f64(a)
    IN  e_f64.whole = a_f64.whole /\ Abs(e_f64.eps - a_f64.eps) < EPSILON

\* Variant: only the expected side is normalized.
StringsMatch_expected_only(e, a, fs) ==
    normalize_path(e, fs) = a

\* e_normalized == a_normalized
StringsMatch(e, a, fs) ==
    normalize_path(e, fs) = normalize_path(a, fs)

RECURSIVE Digits(_)
\* {i}: the decimal digits of an index.
Digits(i) ==
    LET digit == <<"0", "1", "2", "3", "4", "5", "6", "7", "8", "9">>[(i % 10) + 1]
    IN  IF i < 10 THEN <<digit>> ELSE Digits(i \div 10) \o <<digit>>

\* `[{i}]` when the path is empty, `{path}[{i}]` otherwise.
ItemPath(path, i) == path \o <<"[">> \o Digits(i) \o <<"]">>

type_name(value) == value.kind

NoDetail == [none |-> TRUE]
\* The error of a comparison: what differs, where, and the two things the
\* message shows.
Mismatch(kind, path, exp, act) ==
    [state |-> "err", kind |-> kind, path |-> path, exp |-> exp, act |-> act]

\* The first key of `keys`, in iteration order, that is not in `others`.
FirstKeyNotIn(keys, others) ==
    LET absent == SelectSeq(SortedKeys(keys), LAMBDA k : k \notin others)
    IN  IF absent = << >> THEN None ELSE Some(absent[1])

\* for key in e.keys(): the first key that `a` does not contain.
MissingKey(e, a) == FirstKeyNotIn(DOMAIN e, DOMAIN a)

\* Variant: keys the expected object does not have are not looked for.
ExtraKey_never(e, a) == None

\* for key in a.keys(): the first key that `e` does not contain.
ExtraKey(e, a) == FirstKeyNotIn(DOMAIN a, DOMAIN e)

RECURSIVE compare_json(_, _, _, _)
RECURSIVE CompareItems(_, _, _, _, _)
RECURSIVE CompareFields(_, _, _, _, _)
RECURSIVE CompareFields_last_error(_, _, _, _, _)

\* Variant: only the first pair of items is compared.
CompareItems_first_only(e, a, path, i, fs) ==
    IF i >= Len(e) \/ i >= 1 THEN Ok
    ELSE compare_json(e[i + 1], a[i + 1], ItemPath(path, i), fs)

\* for (i, (e_val, a_val)) in e.iter().zip(a.iter()).enumerate(), from item i
\* (counted from 0) on: the first error.
CompareItems(e, a, path, i, fs) ==
    IF i >= Len(e) THEN Ok
    ELSE LET r == compare_json(e[i + 1], a[i + 1], ItemPath(path, i), fs)
         IN  IF IsErr(r) THEN r ELSE CompareItems(e, a, path, i + 1, fs)

\* Variant: every key is visited and the last error is the one returned.
CompareFields_last_error(e, a, path, keys, fs) ==
    IF keys = << >> THEN Ok
    ELSE LET key == Head(keys)
             r == compare_json(e[key], a[key], KeyPath(path, key), fs)
             rest == CompareFields_last_error(e, a, path, Tail(keys), fs)
         IN  IF IsErr(rest) THEN rest ELSE r

\* for (key, e_val) in e.iter(), over the keys still to visit: the first error.
CompareFields(e, a, path, keys, fs) ==
    IF keys = << >> THEN Ok
    ELSE LET key == Head(keys)
             r == compare_json(e[key], a[key], KeyPath(path, key), fs)
         IN  IF IsErr(r) THEN r ELSE CompareFields(e, a, path, Tail(keys), fs)

compare_json(e, a, path, fs) ==
    IF e.kind = "null" /\ a.kind = "null" THEN Ok
    ELSE IF e.kind = "boolean" /\ a.kind = "boolean" THEN
        IF e.b = a.b THEN Ok
        ELSE Mismatch("boolean mismatch", path, e, a)
    ELSE IF e.kind = "number" /\ a.kind = "number" THEN
        IF NumbersMatch(e, a) THEN Ok
        ELSE Mismatch("number mismatch", path, e, a)
    ELSE IF e.kind = "string" /\ a.kind = "string" THEN
        IF StringsMatch(e.s, a.s, fs) THEN Ok
        ELSE Mismatch("string mismatch", path, e, a)
    ELSE IF e.kind = "array" /\ a.kind = "array" THEN
        IF Len(e.items) # Len(a.items)
        THEN Mismatch("array length mismatch", path,
                      [count |-> Len(e.items)], [count |-> Len(a.items)])
        ELSE CompareItems(e.items, a.items, path, 0, fs)
    ELSE IF e.kind = "object" /\ a.kind = "object" THEN
        LET missing == MissingKey(e.fields, a.fields)
            extra == ExtraKey(e.fields, a.fields)
        IN  IF IsSome(missing)
            THEN Mismatch("missing key in actual output",
                          KeyPath(path, missing.val), NoDetail, NoDetail)
            ELSE IF IsSome(extra)
            THEN Mismatch("unexpected key in actual output",
                          KeyPath(path, extra.val), NoDetail, NoDetail)
            ELSE CompareFields(e.fields, a.fields, path,
                               SortedKeys(DOMAIN e.fields), fs)
    ELSE Mismatch("type mismatch", path,
                  [type |-> type_name(e)], [type |-> type_name(a)])

\* The value of validate_outputs: its two filtered values and its Result.
validate_outputs(exp, act, excl, fs) ==
    LET e_filtered == filter_outputs(exp, excl)
        a_filtered == filter_outputs(act, excl)
    IN  [expected_filtered |-> e_filtered,
         actual_filtered |-> a_filtered,
         result |-> compare_json(e_filtered, a_filtered, << >>, fs)]

-----------------------------------------------------------------------------
(* The fixtures the resolver is run on.                                    *)

\* Declaration names (`\w+`: never empty, never with a `.`).
Names == {Str1("a"), Str1("b"), Str1("w")}
\* A name no source of the model declares.
Undeclared == Str1("c")

SourceLines ==
    {WorkflowLine(Str1("w")), WorkflowLine(Str1("a")),
     TaskLine(Str1("a")), TaskLine(Str1("b")), OtherLine}

SeqsUpTo(S, n) == UNION {[1..k -> S] : k \in 0..n}

Sources == SeqsUpTo(SourceLines, MaxLines)

\* Keys of an input object: `a.x`, `a.b.x`, `b.x`, `w.x`, `a`, `c.x`.
InputKeys ==
    {<<"a", ".", "x">>, <<"a", ".", "b", ".", "x">>, <<"b", ".", "x">>,
     <<"w", ".", "x">>, <<"a">>, <<"c", ".", "x">>}

InputObjects ==
    {JObj([k \in ks |-> JNum(1, 0)]) :
        ks \in {s \in SUBSET InputKeys : Cardinality(s) <= MaxInputKeys}}

\* Absent, a JSON value that is no object, or an object.
Inputs == {None} \cup {Some(JArr(<< >>))} \cup {Some(o) : o \in InputObjects}

ConfigTargets == {None} \cup {Some(n) : n \in Names \cup {Undeclared}}

ResolverIdle ==
    /\ src = << >>
    /\ input = None
    /\ config_target = None
    /\ inferred_target = None
    /\ resolved = Pending

ValidatorIdle ==
    /\ expected = JNull
    /\ actual = JNull
    /\ exclude = {}
    /\ disk = {}
    /\ expected_filtered = JNull
    /\ actual_filtered = JNull
    /\ outcome = Pending

\* main has not been entered: no fixture, the default Args.
DriverIdle ==
    /\ tests = << >>
    /\ args = [capabilities |-> {}, all_capabilities |-> FALSE, include |-> {},
               exclude |-> {}, redirect_stdout |-> FALSE, output_selector |-> None]
    /\ index = 1
    /\ pc = "loop"
    /\ workdir = {}
    /\ invoked = << >>
    /\ output = Pending
    /\ results = << >>
    /\ summary = Pending
    /\ run_result = Pending

\* substitute() has not been called.
ShellIdle ==
    /\ call = None
    /\ command = Pending

\* Runner::compile has not been called: no markdown, an empty root_dir.
CompileIdle ==
    /\ contents = << >>
    /\ options = [force |-> FALSE, inject_wdl_version |-> None]
    /\ root = {}
    /\ resources = << >>
    /\ cursor = 1
    /\ compiled = Pending

\* A test as build_conformance_test leaves it: no target inferred yet.
InitResolve ==
    /\ src \in Sources
    /\ input \in Inputs
    /\ config_target \in ConfigTargets
    /\ inferred_target = None
    /\ resolved = Pending
    /\ ValidatorIdle
    /\ DriverIdle
    /\ ShellIdle
    /\ CompileIdle

\* Runner::compile calls test.infer_and_validate_target() once per test.
Resolve ==
    /\ resolved = Pending
    /\ LET r == infer_and_validate_target(src, input, config_target, inferred_target)
       IN  /\ resolved' = r.result
           /\ inferred_target' = r.target
    /\ UNCHANGED <<src, input, config_target>>
    /\ UNCHANGED validatorVars
    /\ UNCHANGED driverVars
    /\ UNCHANGED <<shellVars, compileVars>>

NextResolve == Resolve

SpecResolve == InitResolve /\ [][NextResolve]_vars

-----------------------------------------------------------------------------
(* The values the validator is run on.                                     *)

\* `f`, and `/d/f`, a path whose file name is `f`.
PlainString == Str1("f")
PathString == <<"/", "d", "/", "f">>

\* The scalars at the leaves of the nested values.
Leaves == {JNull, JBool(TRUE), JNum(1, 0), JStr(PathString)}
\* Every scalar of the model: 0, f64::EPSILON / 2 and 1 among the numbers.
Scalars ==
    Leaves \cup {JBool(FALSE), JNum(0, 0), JNum(0, 1), JStr(PlainString)}

ObjectKeys == {Str1("a"), Str1("b")}

RECURSIVE JsonOfSize(_)
RECURSIVE ArraysOfSize(_)
RECURSIVE ObjectsOfSize(_, _)

\* The sequences of values with n nodes in all.
ArraysOfSize(n) ==
    IF n = 0 THEN {<< >>}
    ELSE UNION {{<<x>> \o rest : x \in JsonOfSize(k), rest \in ArraysOfSize(n - k)} :
                    k \in 1..n}

\* The maps with n nodes in all whose keys are among `keys`.
ObjectsOfSize(n, keys) ==
    IF n = 0 THEN {EmptyMap}
    ELSE IF keys = << >> THEN {}
    ELSE ObjectsOfSize(n, Tail(keys)) \cup
         UNION {{(Head(keys) :> x) @@ rest :
                     x \in JsonOfSize(k), rest \in ObjectsOfSize(n - k, Tail(keys))} :
                    k \in 1..n}

\* The values of exactly n nodes: a scalar, or an array or an object and the
\* nodes of its members.
JsonOfSize(n) ==
    (IF n = 1 THEN Leaves ELSE {})
        \cup {JArr(items) : items \in ArraysOfSize(n - 1)}
        \cup {JObj(fields) : fields \in ObjectsOfSize(n - 1, SortedKeys(ObjectKeys))}

JsonValues == Scalars \cup UNION {JsonOfSize(n) : n \in 1..MaxNodes}

\* What the engine may give back in place of the expected value: a scalar, an
\* empty array or an empty object.
OtherActuals == Scalars \cup JsonOfSize(1)

\* Entries of `exclude_outputs`: the bare keys `a` and `b`, the paths `a.b`
\* and `a.a`.  Only `contains` is ever asked of the list, so it is a set here.
ExcludeEntries ==
    {Str1("a"), Str1("b"), <<"a", ".", "b">>, <<"a", ".", "a">>}
ExcludeLists == {e \in SUBSET ExcludeEntries : Cardinality(e) <= MaxExclude}

\* The local filesystem: `/d/f` exists or it does not.
Disks == {{}, {PathString}}

InitValidate ==
    /\ expected \in JsonValues
    /\ actual \in {expected} \cup OtherActuals
    /\ exclude \in ExcludeLists
    /\ disk \in Disks
    /\ expected_filtered = JNull
    /\ actual_filtered = JNull
    /\ outcome = Pending
    /\ ResolverIdle
    /\ DriverIdle
    /\ ShellIdle
    /\ CompileIdle

\* execute_and_evaluate_test calls validate_outputs(expected, actual, exclude).
ValidateOutputs ==
    /\ outcome = Pending
    /\ LET v == validate_outputs(expected, actual, exclude, disk)
       IN  /\ expected_filtered' = v.expected_filtered
           /\ actual_filtered' = v.actual_filtered
           /\ outcome' = v.result
    /\ UNCHANGED <<expected, actual, exclude, disk>>
    /\ UNCHANGED resolverVars
    /\ UNCHANGED driverVars
    /\ UNCHANGED <<shellVars, compileVars>>

NextValidate == ValidateOutputs

SpecValidate == InitValidate /\ [][NextValidate]_vars

-----------------------------------------------------------------------------
(* The outputs of an engine that departs from the expected value.          *)

RECURSIVE Deviations(_)
\* The values one step away from `v`: a scalar is another scalar, an array
\* has lost its last item or gained one, an object has lost a key or gained
\* one, or one member of an array or an object is one step away.
Deviations(v) ==
    IF v.kind = "array" THEN
        UNION {{JArr([v.items EXCEPT ![i] = d]) : d \in Deviations(v.items[i])} :
                   i \in 1..Len(v.items)}
            \cup (IF v.items = << >> THEN {}
                  ELSE {JArr(SubSeq(v.items, 1, Len(v.items) - 1))})
            \cup {JArr(Append(v.items, JNull))}
    ELSE IF v.kind = "object" THEN
        UNION {{JObj([v.fields EXCEPT ![k] = d]) : d \in Deviations(v.fields[k])} :
                   k \in DOMAIN v.fields}
            \cup {JObj([j \in (DOMAIN v.fields) \ {k} |-> v.fields[j]]) :
                      k \in DOMAIN v.fields}
            \cup {JObj((k :> JNull) @@ v.fields) : k \in ObjectKeys \ DOMAIN v.fields}
    ELSE {JBool(FALSE), JStr(PlainString)} \ {v}

\* What the engine may write to `outputs.json` for an expected value: the
\* value itself, or a value one or two steps away from it.
ActualOutputs(v) ==
    {v} \cup Deviations(v) \cup UNION {Deviations(d) : d \in Deviations(v)}

\* Nothing is excluded, or one key or one path is.
ShortExcludeLists == {e \in ExcludeLists : Cardinality(e) <= 1}

\* The file `/d/f` exists, so the strings `/d/f` and `f` name the same file.
InitCompare ==
    /\ expected \in JsonValues
    /\ actual \in ActualOutputs(expected)
    /\ exclude \in ShortExcludeLists
    /\ disk = {PathString}
    /\ expected_filtered = JNull
    /\ actual_filtered = JNull
    /\ outcome = Pending
    /\ ResolverIdle
    /\ DriverIdle
    /\ ShellIdle
    /\ CompileIdle

NextCompare == ValidateOutputs

SpecCompare == InitCompare /\ [][NextCompare]_vars

-----------------------------------------------------------------------------
(* src/conformance/test/config.rs, src/conformance/test/result.rs          *)

\* enum Capability
Capability == {"cpu", "memory", "gpu", "disks", "allow_nested_inputs"}

\* enum ReturnCode (`Any` is a name of the TLC module)
ReturnCodeAny == [tag |-> "Any"]
Single(code) == [tag |-> "Single", code |-> code]
Multiple(codes) == [tag |-> "Multiple", codes |-> codes]

\* enum SkipReason
Ignored == [tag |-> "Ignored"]
MissingCapabilities(caps) == [tag |-> "MissingCapabilities", caps |-> caps]

\* enum FailureReason
ReturnCodeMismatch(rc, code) ==
    [reason |-> "ReturnCodeMismatch", expected |-> rc, actual |-> code]
OutputMismatch(details) == [reason |-> "OutputMismatch", details |-> details]
ExecutionError(e) == [reason |-> "ExecutionError", error |-> e]
UnexpectedSuccess == [reason |-> "UnexpectedSuccess"]
NoOutput == [reason |-> "NoOutput"]
SelectorError(selector, details) ==
    [reason |-> "SelectorError", selector |-> selector, details |-> details]

\* enum TestResult
Passed == [tag |-> "Passed"]
Failed(reason) == [tag |-> "Failed", reason |-> reason]
Skipped(reason) == [tag |-> "Skipped", reason |-> reason]

is_passed(r) == r.tag = "Passed"

\* Variant: a skipped test counts as a failed one.
is_failed_or_skipped(r) == r.tag \in {"Failed", "Skipped"}

is_failed(r) == r.tag = "Failed"
is_skipped(r) == r.tag = "Skipped"

-----------------------------------------------------------------------------
(* src/command/test.rs: main and execute_and_evaluate_test.  The driver's  *)
(* own file operations (the SAFETY comments of main) succeed.              *)

DotWdl == <<".", "w", "d", "l">>

RECURSIVE trim_end_matches(_, _)
\* str::trim_end_matches: the suffix is removed as often as it is there.
trim_end_matches(s, pat) ==
    IF pat # << >> /\ Len(s) >= Len(pat)
          /\ SubSeq(s, Len(s) - Len(pat) + 1, Len(s)) = pat
    THEN trim_end_matches(SubSeq(s, 1, Len(s) - Len(pat)), pat)
    ELSE s

\* str::contains
contains(s, pat) ==
    \E i \in 0..(Len(s) - Len(pat)) : SubSeq(s, i + 1, i + Len(pat)) = pat

\* (1) the test is left out by --include or by --exclude.
FilteredOut(test, a) ==
    LET test_name == trim_end_matches(test.file_name, DotWdl)
    IN  \/ /\ a.include # {}
           /\ ~\E pattern \in a.include : contains(test_name, pattern)
        \/ /\ a.exclude # {}
           /\ \E pattern \in a.exclude : contains(test_name, pattern)

\* args.capabilities once --all-capabilities is handled.
EnabledCapabilities(a) ==
    IF a.all_capabilities THEN Capability ELSE a.capabilities

\* Variant: every required capability is listed once one of them is absent.
missing_capabilities_all_required(test, a) ==
    IF \E i \in 1..Len(test.config.capabilities) :
           test.config.capabilities[i] \notin EnabledCapabilities(a)
    THEN test.config.capabilities
    ELSE << >>

\* (2) the required capabilities that are not enabled, in the config's order.
missing_capabilities(test, a) ==
    SelectSeq(test.config.capabilities,
              LAMBDA cap : cap \notin EnabledCapabilities(a))

\* What is at a path: a file with text or with bytes that are not UTF-8, or
\* a directory.
Bytes(text) == [dir |-> FALSE, utf8 |-> TRUE, text |-> text]
NotUtf8 == [dir |-> FALSE, utf8 |-> FALSE, text |-> << >>]
Directory == [dir |-> TRUE, utf8 |-> FALSE, text |-> << >>]

\* A file of the working directory: its path from there, its contents and
\* the position of the fixture during whose turn it was written.
File(path, bytes, turn) == [path |-> path, bytes |-> bytes, written_for |-> turn]

InputsJson == <<"inputs.json">>
OutputsJson == <<"outputs.json">>

\* std::fs::write fails where there is a directory.
write_fails(dir, path) == \E f \in dir : f.path = path /\ f.bytes.dir

\* std::fs::write: the file is created or replaced.
write(dir, path, bytes, turn) ==
    {f \in dir : f.path # path} \cup {File(path, bytes, turn)}

\* A file of root_dir: a resource under `data/`, or a test at the top.
RootFile(dir, name, bytes) == [dir |-> dir, name |-> name, bytes |-> bytes]

\* <root>/data as Runner::compile left it: the resources of the suite.
DataDir == {[name |-> f.name, bytes |-> f.bytes] : f \in {g \in root : g.dir = "data"}}

\* Variant: the directory is created if need be, never emptied.
recreate_dir_keeping_files(dir) == dir

\* (3) remove_dir_all then create_dir_all: an empty directory.
recreate_dir(dir) == {}

\* (4) fs_extra::dir::copy of <root>/data into the working directory, which
\* exists: the files land under `data/`, replacing what is there.
copy_data_dir(dir, turn) ==
    LET copied == {File(<<"data", d.name>>, d.bytes, turn) : d \in DataDir}
    IN  {f \in dir : f.path \notin {c.path : c \in copied}} \cup copied

\* serde_json::to_string_pretty, for the values that print on one line.
to_string_pretty(value) ==
    CASE value = JNull -> <<"n", "u", "l", "l">>
      [] value = JBool(TRUE) -> <<"t", "r", "u", "e">>
      [] value = JBool(FALSE) -> <<"f", "a", "l", "s", "e">>
      [] value = JObj(EmptyMap) -> <<"{", "}">>

\* (5) create_input_json: the input pretty-printed, or an empty file.
create_input_json(test, dir, turn) ==
    LET text == IF IsSome(test.input) THEN to_string_pretty(test.input.val)
                ELSE << >>
    IN  write(dir, InputsJson, Bytes(text), turn)

\* ExitStatus::code().unwrap_or(-1): no code when a signal ended the process.
exit_code_of(status) == IF IsSome(status) THEN status.val ELSE -1

\* Variant: a test expected to fail passes whatever the exit code is.
expected_failure_result_any_exit(exit_code) == Passed

\* The test is expected to fail: it passes if the command failed.
expected_failure_result(exit_code) ==
    IF exit_code = 0 THEN Failed(UnexpectedSuccess) ELSE Passed

\* Variant: of several return codes only the first is accepted.
return_code_matches_first_only(rc, exit_code) ==
    CASE rc.tag = "Any" -> TRUE
      [] rc.tag = "Single" -> exit_code = rc.code
      [] rc.tag = "Multiple" -> rc.codes # << >> /\ exit_code = rc.codes[1]

\* match test.config().return_code()
return_code_matches(rc, exit_code) ==
    CASE rc.tag = "Any" -> TRUE
      [] rc.tag = "Single" -> exit_code = rc.code
      [] rc.tag = "Multiple" -> SeqContains(rc.codes, exit_code)

Whitespace == {" ", "\n"}

RECURSIVE trim(_)
\* str::trim
trim(s) ==
    IF s = << >> THEN s
    ELSE IF Head(s) \in Whitespace THEN trim(Tail(s))
    ELSE IF s[Len(s)] \in Whitespace THEN trim(SubSeq(s, 1, Len(s) - 1))
    ELSE s

ObjectAText == <<"{", "\"", "a", "\"", ":", "t", "r", "u", "e", "}">>

\* serde_json::from_str, on the documents of the model: the three literals,
\* `{}` and `{"a":true}`, with whitespace around; anything else is an error.
from_str(text) ==
    LET t == trim(text)
    IN  CASE t = <<"n", "u", "l", "l">> -> OkOpt(JNull)
          [] t = <<"t", "r", "u", "e">> -> OkOpt(JBool(TRUE))
          [] t = <<"f", "a", "l", "s", "e">> -> OkOpt(JBool(FALSE))
          [] t = <<"{", "}">> -> OkOpt(JObj(EmptyMap))
          [] t = ObjectAText -> OkOpt(JObj(Str1("a") :> JBool(TRUE)))
          [] OTHER -> [state |-> "err"]

SelectIdentity == <<".">>
SelectA == <<".", "a">>

\* apply_selector, for the two jq programs of the model: `.` gives its
\* input, `.a` gives the member `a` of an object (null if there is none),
\* null of null, and fails on any other input.
apply_selector(selector, value) ==
    CASE selector = SelectIdentity -> OkOpt(value)
      [] selector = SelectA ->
            IF value.kind = "object"
            THEN OkOpt(IF Str1("a") \in DOMAIN value.fields
                       THEN value.fields[Str1("a")] ELSE JNull)
            ELSE IF value.kind = "null" THEN OkOpt(JNull)
            ELSE [state |-> "err",
                  reason |-> SelectorError(selector, "selector execution failed")]

\* execute_and_evaluate_test from `if let Some(expected_output)` on: the
\* result of looking at `outputs.json`.
evaluate_output(test, dir, a, fs) ==
    LET found == {f \in dir : f.path = OutputsJson}
        file == CHOOSE f \in found : TRUE
        parsed == from_str(file.bytes.text)
        selected == IF IsSome(a.output_selector)
                    THEN apply_selector(a.output_selector.val, parsed.val)
                    ELSE OkOpt(parsed.val)
        validated == validate_outputs(test.output.val, selected.val,
                                      test.config.exclude_outputs, fs).result
    IN  IF found = {} THEN Failed(NoOutput)
        ELSE IF file.bytes.dir \/ ~file.bytes.utf8
        THEN Failed(OutputMismatch([kind |-> "failed to read outputs.json"]))
        ELSE IF trim(file.bytes.text) = << >> THEN Failed(NoOutput)
        ELSE IF IsErr(parsed)
        THEN Failed(OutputMismatch([kind |-> "failed to parse outputs.json"]))
        ELSE IF IsErr(selected) THEN Failed(selected.reason)
        ELSE IF IsErr(validated) THEN Failed(OutputMismatch(validated))
        ELSE Passed

\* execute_and_evaluate_test once Command::output() has returned `out`: the
\* result of the test and the working directory it leaves.
execute_and_evaluate_test(test, out, dir, a, turn, fs) ==
    IF out.state = "err"
    THEN [result |-> Failed(ExecutionError("spawn")), workdir |-> dir]
    ELSE LET exit_code == exit_code_of(out.status)
             unwritten == a.redirect_stdout /\ write_fails(dir, OutputsJson)
             written == IF a.redirect_stdout /\ ~unwritten
                        THEN write(dir, OutputsJson, Bytes(out.stdout), turn)
                        ELSE dir
             result ==
                 IF unwritten
                 THEN Failed(ExecutionError("failed to write stdout to outputs.json"))
                 ELSE IF test.config.fail THEN expected_failure_result(exit_code)
                 ELSE IF ~return_code_matches(test.config.return_code, exit_code)
                 THEN Failed(ReturnCodeMismatch(test.config.return_code, exit_code))
                 ELSE IF IsSome(test.output)
                 THEN evaluate_output(test, written, a, fs)
                 ELSE Passed
         IN  [result |-> result, workdir |-> written]

\* Variant: the loop ends at the first failed test.
next_test_until_failure(turn, result, n) ==
    IF is_failed(result) THEN n + 1 ELSE turn + 1

\* `for test in runner.tests()`: the position after a test has its result.
next_test(turn, result, n) == turn + 1

\* determine_color: the pass rate is passed / total.
determine_color(passed, total) ==
    IF total = 0 THEN "lightgrey"
    ELSE IF passed >= total THEN "brightgreen"
    ELSE IF 2 * passed >= total THEN "yellow"
    ELSE "red"

\* Badge::from_results: the message `{passed}/{total} passed` and the color.
from_results(passed, total) ==
    [passed |-> passed, total |-> total, color |-> determine_color(passed, total)]

\* What main prints and outputs once the loop is over, and what it returns.
summarize(rs) ==
    LET passed == Cardinality({i \in 1..Len(rs) : is_passed(rs[i].result)})
        failed == Cardinality({i \in 1..Len(rs) : is_failed(rs[i].result)})
        skipped == Cardinality({i \in 1..Len(rs) : is_skipped(rs[i].result)})
    IN  [summary |-> [passed |-> passed, failed |-> failed, skipped |-> skipped,
                      total |-> passed + failed,
                      badge |-> from_results(passed, passed + failed)],
         result |-> IF failed > 0
                    THEN [state |-> "err", kind |-> "test(s) failed", count |-> failed]
                    ELSE Ok]

-----------------------------------------------------------------------------
(* The steps of main's loop over the fixtures.                             *)

CurrentTest == tests[index]

\* The loop is at a fixture that --include and --exclude let through.
AtTest ==
    /\ pc = "loop"
    /\ index <= Len(tests)
    /\ ~FilteredOut(CurrentTest, args)

\* (1) `continue`: the fixture is filtered out and gets no result.
FilterOut ==
    /\ pc = "loop"
    /\ index <= Len(tests)
    /\ FilteredOut(CurrentTest, args)
    /\ index' = index + 1
    /\ UNCHANGED <<tests, args, pc, workdir, invoked, output, results, summary,
                   run_result>>
    /\ UNCHANGED <<resolverVars, validatorVars, shellVars, compileVars>>

\* (2) the fixture is marked `ignore: true`.
SkipIgnored ==
    /\ AtTest
    /\ CurrentTest.config.ignore
    /\ results' = Append(results, [name |-> CurrentTest.file_name,
                                   result |-> Skipped(Ignored)])
    /\ index' = index + 1
    /\ UNCHANGED <<tests, args, pc, workdir, invoked, output, summary, run_result>>
    /\ UNCHANGED <<resolverVars, validatorVars, shellVars, compileVars>>

\* (2) the fixture requires a capability that is not enabled.
SkipMissingCapabilities ==
    /\ AtTest
    /\ ~CurrentTest.config.ignore
    /\ missing_capabilities(CurrentTest, args) # << >>
    /\ results' = Append(results,
           [name |-> CurrentTest.file_name,
            result |-> Skipped(MissingCapabilities(
                           missing_capabilities(CurrentTest, args)))])
    /\ index' = index + 1
    /\ UNCHANGED <<tests, args, pc, workdir, invoked, output, summary, run_result>>
    /\ UNCHANGED <<resolverVars, validatorVars, shellVars, compileVars>>

\* (3) to (5): the working directory is emptied, gets the data directory
\* and `inputs.json`; the command is ready to be run.
Prepare ==
    /\ AtTest
    /\ ~CurrentTest.config.ignore
    /\ missing_capabilities(CurrentTest, args) = << >>
    /\ workdir' = create_input_json(CurrentTest,
                      copy_data_dir(recreate_dir(workdir), index), index)
    /\ pc' = "invoke"
    /\ UNCHANGED <<tests, args, index, invoked, output, results, summary,
                   run_result>>
    /\ UNCHANGED <<resolverVars, validatorVars, shellVars, compileVars>>

TrueText == <<"t", "r", "u", "e">>
FalseText == <<"f", "a", "l", "s", "e">>

\* How a process may end: with the code 0, 1 or 2, or by a signal.
ExitStatuses == {Some(0), Some(1), Some(2), None}

\* What the command may leave at `outputs.json` and on its standard output.
CommandWrites ==
    {[file |-> None, stdout |-> << >>],
     [file |-> None, stdout |-> TrueText],
     [file |-> Some(Bytes(<<" ">>)), stdout |-> << >>],
     [file |-> Some(Bytes(<<"{">>)), stdout |-> << >>],
     [file |-> Some(Bytes(TrueText)), stdout |-> << >>],
     [file |-> Some(Bytes(FalseText)), stdout |-> TrueText],
     [file |-> Some(Bytes(ObjectAText)), stdout |-> << >>],
     [file |-> Some(NotUtf8), stdout |-> << >>],
     [file |-> Some(Directory), stdout |-> TrueText]}

\* What Command::output() may do: fail to spawn `bash`, or run the command,
\* which writes what it writes and ends as it ends.
CommandOutcomes ==
    {[spawned |-> FALSE, status |-> None, file |-> None, stdout |-> << >>]}
        \cup {[spawned |-> TRUE, status |-> s, file |-> w.file, stdout |-> w.stdout] :
                 s \in ExitStatuses, w \in CommandWrites}

\* (6) Command::new("bash").args(["-c", command]).output()
Execute ==
    /\ pc = "invoke"
    /\ invoked' = Append(invoked, CurrentTest.file_name)
    /\ \E c \in CommandOutcomes :
           IF c.spawned
           THEN /\ workdir' = IF IsSome(c.file)
                              THEN write(workdir, OutputsJson, c.file.val, index)
                              ELSE workdir
                /\ output' = [state |-> "ok", status |-> c.status, stdout |-> c.stdout]
           ELSE /\ workdir' = workdir
                /\ output' = [state |-> "err"]
    /\ pc' = "evaluate"
    /\ UNCHANGED <<tests, args, index, results, summary, run_result>>
    /\ UNCHANGED <<resolverVars, validatorVars, shellVars, compileVars>>

\* (6) to (8): the rest of execute_and_evaluate_test, and the result is
\* stored.
Evaluate ==
    /\ pc = "evaluate"
    /\ LET ev == execute_and_evaluate_test(CurrentTest, output, workdir, args,
                                           index, disk)
       IN  /\ workdir' = ev.workdir
           /\ results' = Append(results, [name |-> CurrentTest.file_name,
                                          result |-> ev.result])
           /\ index' = next_test(index, ev.result, Len(tests))
    /\ output' = Pending
    /\ pc' = "loop"
    /\ UNCHANGED <<tests, args, invoked, summary, run_result>>
    /\ UNCHANGED <<resolverVars, validatorVars, shellVars, compileVars>>

\* The loop is over: the summary, the badge and the value main returns.
Summarize ==
    /\ pc = "loop"
    /\ index > Len(tests)
    /\ summary' = summarize(results).summary
    /\ run_result' = summarize(results).result
    /\ pc' = "done"
    /\ UNCHANGED <<tests, args, index, workdir, invoked, output, results>>
    /\ UNCHANGED <<resolverVars, validatorVars, shellVars, compileVars>>

NextDriver ==
    \/ FilterOut
    \/ SkipIgnored
    \/ SkipMissingCapabilities
    \/ Prepare
    \/ Execute
    \/ Evaluate
    \/ Summarize

-----------------------------------------------------------------------------
(* The fixtures and the arguments the driver is run on.                    *)

\* File names of compiled fixtures: no two fixtures share one.
TestNames ==
    << <<"a">> \o DotWdl, <<"a", "b">> \o DotWdl, <<"b">> \o DotWdl,
       <<"b", "b">> \o DotWdl >>

ReturnCodes == {ReturnCodeAny, Single(0), Single(1), Multiple(<<1, 2>>)}
CapabilityLists == {<< >>, <<"gpu">>, <<"cpu", "gpu">>}
ExpectedOutputs == {None, Some(JBool(TRUE))}
ExampleInputs == {None, Some(JObj(EmptyMap))}

\* A fixture of the given file name; a shape is what varies among fixtures.
Test(name, shape) ==
    [file_name |-> name, input |-> shape.input, output |-> shape.output,
     config |-> [ignore |-> shape.ignore, fail |-> shape.fail,
                 return_code |-> shape.return_code, exclude_outputs |-> {},
                 capabilities |-> shape.capabilities]]

FixtureShapes ==
    [ignore : BOOLEAN, fail : BOOLEAN, return_code : ReturnCodes,
     capabilities : CapabilityLists, input : ExampleInputs,
     output : ExpectedOutputs]

\* --include and --exclude conflict with each other.
Filters ==
    {[include |-> {}, exclude |-> {}],
     [include |-> {<<"a">>}, exclude |-> {}],
     [include |-> {}, exclude |-> {<<"a">>}],
     [include |-> {<<"w">>}, exclude |-> {}]}

\* --capabilities and --all-capabilities conflict with each other.
CapabilityArgs ==
    {[capabilities |-> {}, all_capabilities |-> FALSE],
     [capabilities |-> {"cpu"}, all_capabilities |-> FALSE],
     [capabilities |-> {}, all_capabilities |-> TRUE]}

Selectors == {None, Some(SelectIdentity), Some(SelectA)}

Args(caps, filter, redirect, selector) ==
    [capabilities |-> caps.capabilities, all_capabilities |-> caps.all_capabilities,
     include |-> filter.include, exclude |-> filter.exclude,
     redirect_stdout |-> redirect, output_selector |-> selector]

AllArgs ==
    {Args(caps, filter, redirect, selector) :
        caps \in CapabilityArgs, filter \in Filters, redirect \in BOOLEAN,
        selector \in Selectors}

\* The loop is about to start.
DriverStart ==
    /\ index = 1
    /\ pc = "loop"
    /\ workdir = {}
    /\ invoked = << >>
    /\ output = Pending
    /\ results = << >>
    /\ summary = Pending
    /\ run_result = Pending
    /\ ResolverIdle
    /\ ValidatorIdle
    /\ ShellIdle
    /\ contents = << >>
    /\ options = [force |-> FALSE, inject_wdl_version |-> None]
    /\ root = {RootFile("data", <<"r">>, Bytes(<<"r">>))}
    /\ resources = << >>
    /\ cursor = 1
    /\ compiled = Ok

\* A suite of one fixture, of any shape, run with any arguments.
InitFixture ==
    /\ tests \in {<<Test(TestNames[1], shape)>> : shape \in FixtureShapes}
    /\ args \in AllArgs
    /\ DriverStart

SpecFixture == InitFixture /\ [][NextDriver]_vars

\* The shapes of the fixtures of a suite: ignored, requiring capabilities,
\* expected to fail, with an expected output, with return codes.
SuiteShapes ==
    {[ignore |-> TRUE, fail |-> FALSE, return_code |-> ReturnCodeAny,
      capabilities |-> << >>, input |-> None, output |-> None],
     [ignore |-> FALSE, fail |-> FALSE, return_code |-> ReturnCodeAny,
      capabilities |-> <<"cpu", "gpu">>, input |-> None, output |-> None],
     [ignore |-> FALSE, fail |-> TRUE, return_code |-> Single(0),
      capabilities |-> << >>, input |-> Some(JObj(EmptyMap)),
      output |-> Some(JBool(TRUE))],
     [ignore |-> FALSE, fail |-> FALSE, return_code |-> ReturnCodeAny,
      capabilities |-> << >>, input |-> None, output |-> Some(JBool(TRUE))],
     [ignore |-> FALSE, fail |-> FALSE, return_code |-> Multiple(<<1, 2>>),
      capabilities |-> << >>, input |-> None, output |-> None]}

\* The arguments a suite is run with.
SuiteArgs ==
    {Args([capabilities |-> {"cpu"}, all_capabilities |-> FALSE],
          [include |-> {}, exclude |-> {}], FALSE, None),
     Args([capabilities |-> {}, all_capabilities |-> TRUE],
          [include |-> {}, exclude |-> {<<"b">>}], TRUE, None),
     Args([capabilities |-> {"cpu"}, all_capabilities |-> FALSE],
          [include |-> {<<"a">>}, exclude |-> {}], FALSE, Some(SelectA))}

\* The suites of at most MaxTests fixtures, named in document order.
Suites ==
    UNION {{[i \in 1..n |-> Test(TestNames[i], shapes[i])] :
               shapes \in [1..n -> SuiteShapes]} : n \in 0..MaxTests}

InitRun ==
    /\ tests \in Suites
    /\ args \in SuiteArgs
    /\ DriverStart

SpecRun == InitRun /\ [][NextDriver]_vars

-----------------------------------------------------------------------------
(* src/shell.rs: substitute                                                *)

PathPlaceholder == <<"~", "{", "p", "a", "t", "h", "}">>
InputPlaceholder == <<"~", "{", "i", "n", "p", "u", "t", "}">>
OutputPlaceholder == <<"~", "{", "o", "u", "t", "p", "u", "t", "}">>
TargetPlaceholder == <<"~", "{", "t", "a", "r", "g", "e", "t", "}">>

RECURSIVE replace(_, _, _)
\* str::replace: every non-overlapping match of `from`, from the left.
replace(s, from, to) ==
    IF Len(s) < Len(from) THEN s
    ELSE IF SubSeq(s, 1, Len(from)) = from
    THEN to \o replace(SubSeq(s, Len(from) + 1, Len(s)), from, to)
    ELSE <<Head(s)>> \o replace(Tail(s), from, to)

\* substitute: the target arguments of the target's kind are appended, then
\* the four placeholders are replaced one after the other, then the command
\* is trimmed.
substitute(c) ==
    LET target_args == IF c.target.kind = "Workflow" THEN c.workflow_target_args
                       ELSE c.task_target_args
        appended == c.command \o <<" ">> \o target_args
        with_path == replace(appended, PathPlaceholder, c.path)
        with_input == replace(with_path, InputPlaceholder, c.input)
        with_output == replace(with_input, OutputPlaceholder, c.output)
        with_target == replace(with_output, TargetPlaceholder, c.target.name)
    IN  trim(with_target)

\* main calls substitute() for the fixture it is about to run.
Substitute ==
    /\ IsSome(call)
    /\ command = Pending
    /\ command' = OkOpt(substitute(call.val))
    /\ UNCHANGED <<call, resolverVars, validatorVars, driverVars, compileVars>>

NextSubstitute == Substitute

\* The pieces of a command template: a character, a space, a placeholder.
Pieces ==
    {<<"x">>, <<" ">>, PathPlaceholder, InputPlaceholder, OutputPlaceholder,
     TargetPlaceholder}

RECURSIVE Templates(_)
\* The templates of at most n pieces.
Templates(n) ==
    IF n = 0 THEN {<< >>}
    ELSE Templates(n - 1) \cup {t \o p : t \in Templates(n - 1), p \in Pieces}

\* The paths of a fixture's file: `/a`, and one whose file name is
\* `~{target}`; the paths of the files of the working directory.
TestPaths == {<<"/", "a">>, <<"/">> \o TargetPlaceholder}
InputPath == <<"/", "i">>
OutputPath == <<"/", "o">>

InitSubstitute ==
    /\ call \in {Some([command |-> c, path |-> p, input |-> InputPath,
                       output |-> OutputPath, target |-> t,
                       workflow_target_args |-> w, task_target_args |-> k]) :
                    c \in Templates(MaxPieces), p \in TestPaths,
                    t \in {WorkflowTarget(Str1("w")), TaskTarget(Str1("t"))},
                    w \in Templates(1), k \in Templates(1)}
    /\ command = Pending
    /\ ResolverIdle
    /\ ValidatorIdle
    /\ DriverIdle
    /\ CompileIdle

SpecSubstitute == InitSubstitute /\ [][NextSubstitute]_vars

-----------------------------------------------------------------------------
(* The markdown, as the regexes of the extraction see it.                  *)
(*                                                                         *)
(* The markdown is a sequence of tokens with any white space between them: *)
(* the literals the regexes name (tags, labels, code fences) and runs of   *)
(* other text. `\s*` matches between any two tokens, a literal matches its *)
(* token, and `(.+?)` and `(.*?)` match as few tokens as lets the rest of  *)
(* the pattern match, of any kind, as `.` matches every character under    *)
(* the `s` flag. A closing fence is the bare one: the first three          *)
(* characters of a fence with a language do not close a block, as the      *)
(* language is then in the way of what the pattern asks for next. The     *)
(* fences are the tokens "fence", "fence wdl" and "fence json".            *)

\* A source line `version <v>`.
VersionLine(v) == [decl |-> "version", name |-> v]

\* A literal of the patterns.
Tok(t) == [t |-> t, s |-> <<t>>, lines |-> <<OtherLine>>]
\* Text the patterns do not name: its characters.
Text(s) == [t |-> "text", s |-> s, lines |-> <<OtherLine>>]
\* Text that is WDL source: its lines.
Wdl(lines) == [t |-> "text", s |-> <<"W">>, lines |-> lines]

RECURSIVE Flatten(_)
\* Match::as_str() of a capture: the characters of its tokens, one space
\* between two tokens.
Flatten(capture) ==
    IF capture = << >> THEN << >>
    ELSE IF Len(capture) = 1 THEN capture[1].s
    ELSE capture[1].s \o <<" ">> \o Flatten(Tail(capture))

RECURSIVE SourceLines_of(_)
\* The lines of a capture that is taken for WDL source.
SourceLines_of(capture) ==
    IF capture = << >> THEN << >>
    ELSE capture[1].lines \o SourceLines_of(Tail(capture))

\* The token at position i, if there is one.
At(toks, i, t) == i >= 1 /\ i <= Len(toks) /\ toks[i].t = t

\* The least member of a set of positions that is not empty.
Least(positions) == CHOOSE i \in positions : \A j \in positions : i <= j

\* No match, and a match that ends at token `end` with the given captures.
NoMatch == [ok |-> FALSE]
IsMatch(m) == m.ok

-----------------------------------------------------------------------------
(* src/conformance/test.rs: CONFORMANCE_TEST_REGEX                         *)

\* (?:<label>\s*```json(.*?)```)? at pos: the positions the content may end
\* at (pos + 1 if it is empty).
JsonBlockEnds(toks, pos, label) ==
    IF At(toks, pos, label) /\ At(toks, pos + 1, "fence json")
    THEN {e \in (pos + 1)..Len(toks) : At(toks, e + 1, "fence")}
    ELSE {}

\* The alternatives of an optional block, in the order the regex tries
\* them: the block with the shortest content that lets the rest match,
\* then no block.
ConfigMatch(toks, pos, ends) ==
    IF ends # {}
    THEN [ok |-> TRUE, config |-> Some(SubSeq(toks, pos + 2, Least(ends))),
          end |-> Least(ends) + 3]
    ELSE IF At(toks, pos, "</p>") /\ At(toks, pos + 1, "</details>")
    THEN [ok |-> TRUE, config |-> None, end |-> pos + 1]
    ELSE NoMatch

\* (?:Test config: ...)?\s*</p>\s*</details> at pos.
TailConfig(toks, pos) ==
    ConfigMatch(toks, pos,
        {e \in JsonBlockEnds(toks, pos, "Test config:") :
            At(toks, e + 2, "</p>") /\ At(toks, e + 3, "</details>")})

WithOutput(group, rest) ==
    [ok |-> TRUE, output |-> group, config |-> rest.config, end |-> rest.end]

OutputMatch(toks, pos, ends, without) ==
    IF ends # {}
    THEN WithOutput(Some(SubSeq(toks, pos + 2, Least(ends))),
                    TailConfig(toks, Least(ends) + 2))
    ELSE IF IsMatch(without) THEN WithOutput(None, without)
    ELSE NoMatch

\* (?:Example output: ...)?\s*(?:Test config: ...)?\s*</p>\s*</details>
TailOutput(toks, pos) ==
    OutputMatch(toks, pos,
        {e \in JsonBlockEnds(toks, pos, "Example output:") :
            IsMatch(TailConfig(toks, e + 2))},
        TailConfig(toks, pos))

WithInput(group, rest) ==
    [ok |-> TRUE, input |-> group, output |-> rest.output,
     config |-> rest.config, end |-> rest.end]

InputMatch(toks, pos, ends, without) ==
    IF ends # {}
    THEN WithInput(Some(SubSeq(toks, pos + 2, Least(ends))),
                   TailOutput(toks, Least(ends) + 2))
    ELSE IF IsMatch(without) THEN WithInput(None, without)
    ELSE NoMatch

\* (?:Example input: ...)?\s*(?:Example output: ...)?\s*(?:Test config: ...)?
\* \s*</p>\s*</details>
TailInput(toks, pos) ==
    InputMatch(toks, pos,
        {e \in JsonBlockEnds(toks, pos, "Example input:") :
            IsMatch(TailOutput(toks, e + 2))},
        TailOutput(toks, pos))

DetailsMatch(toks, pos, section) ==
    IF At(toks, pos, "<p>") /\ IsMatch(section) THEN section
    ELSE IF At(toks, pos, "</details>")
    THEN [ok |-> TRUE, input |-> None, output |-> None, config |-> None,
          end |-> pos]
    ELSE NoMatch

\* (?:<p>\s* ... </p>\s*)?</details> at pos: the group is tried first.
TailDetails(toks, pos) == DetailsMatch(toks, pos, TailInput(toks, pos + 1))

\* Where the source may end if the name ends at token j: at a closing
\* fence that the rest of the pattern follows.
TestSourceEnds(toks, j) ==
    {k \in (j + 1)..Len(toks) :
        /\ At(toks, k + 1, "fence")
        /\ At(toks, k + 2, "</summary>")
        /\ IsMatch(TailDetails(toks, k + 3))}

\* Where the name of an example that starts at token i may end.
TestNameEnds(toks, i) ==
    {j \in (i + 3)..Len(toks) :
        At(toks, j + 1, "fence wdl") /\ TestSourceEnds(toks, j) # {}}

TestMatch(toks, i, j, k, rest) ==
    [ok |-> TRUE, start |-> i, end |-> rest.end,
     name |-> SubSeq(toks, i + 3, j),
     source |-> SubSeq(toks, j + 2, k),
     input |-> rest.input, output |-> rest.output, config |-> rest.config]

TestMatchOfSource(toks, i, j, k) ==
    TestMatch(toks, i, j, k, TailDetails(toks, k + 3))

TestMatchOfName(toks, i, j) ==
    TestMatchOfSource(toks, i, j, Least(TestSourceEnds(toks, j)))

TestMatchOfEnds(toks, i, ends) ==
    IF /\ At(toks, i, "<details>")
       /\ At(toks, i + 1, "<summary>")
       /\ At(toks, i + 2, "Example:")
       /\ ends # {}
    THEN TestMatchOfName(toks, i, Least(ends))
    ELSE NoMatch

\* The match of CONFORMANCE_TEST_REGEX that starts at token i: the name is
\* toks[i+3..j], the source toks[j+2..k]; the shortest name that lets the
\* rest match and, for it, the shortest source. A name has a token at
\* least, the source may be the white space between the fences alone.
TestMatchAt(toks, i) == TestMatchOfEnds(toks, i, TestNameEnds(toks, i))

RECURSIVE TestCaptures(_, _)
RECURSIVE TestCapturesAfter(_, _, _)
\* The search goes on after the end of a match, or a token further.
TestCapturesAfter(toks, i, m) ==
    IF IsMatch(m) THEN <<m>> \o TestCaptures(toks, m.end + 1)
    ELSE TestCaptures(toks, i + 1)

\* CONFORMANCE_TEST_REGEX.captures_iter(contents): the matches from the
\* left, each searched after the end of the one before.
TestCaptures(toks, i) ==
    IF i > Len(toks) THEN << >>
    ELSE TestCapturesAfter(toks, i, TestMatchAt(toks, i))

-----------------------------------------------------------------------------
(* src/conformance/test.rs: build_conformance_test, Tests::compile         *)

\* Config::default()
DefaultConfig ==
    [target |-> None, ignore |-> FALSE, fail |-> FALSE,
     return_code |-> ReturnCodeAny, exclude_outputs |-> {},
     capabilities |-> << >>]

IgnoreText == <<"{", "\"ignore\"", ":", "true", "}">>
FailText == <<"{", "\"fail\"", ":", "true", "}">>
GpuText == <<"{", "\"capabilities\"", ":", "[", "\"gpu\"", "]", "}">>
TargetWText == <<"{", "\"target\"", ":", "\"w\"", "}">>
TargetAText == <<"{", "\"target\"", ":", "\"a\"", "}">>

\* serde_json::from_str::<Config>, on the documents of the model: every
\* field has a default, and a field the struct does not have is an error
\* (deny_unknown_fields), as is text that is not JSON.
config_from_str(text) ==
    LET t == trim(text)
    IN  CASE t = <<"{", "}">> -> OkOpt(DefaultConfig)
          [] t = IgnoreText -> OkOpt([DefaultConfig EXCEPT !.ignore = TRUE])
          [] t = FailText -> OkOpt([DefaultConfig EXCEPT !.fail = TRUE])
          [] t = GpuText -> OkOpt([DefaultConfig EXCEPT !.capabilities = <<"gpu">>])
          [] t = TargetWText -> OkOpt([DefaultConfig EXCEPT !.target = Some(Str1("w"))])
          [] t = TargetAText -> OkOpt([DefaultConfig EXCEPT !.target = Some(Str1("a"))])
          [] OTHER -> [state |-> "err"]

\* Variant: a group that is not JSON gives null.
optional_json_group_null(group) ==
    IF IsNone(group) THEN None
    ELSE IF IsErr(from_str(Flatten(group.val))) THEN Some(JNull)
    ELSE Some(from_str(Flatten(group.val)).val)

\* captures.get(index).and_then(|v| v.as_str().parse().ok())
optional_json_group(group) ==
    IF IsNone(group) THEN None
    ELSE IF IsErr(from_str(Flatten(group.val))) THEN None
    ELSE Some(from_str(Flatten(group.val)).val)

\* optional_group::<Config>: Ok(None) without the group, the parsed
\* configuration or the parse error with it.
optional_group(group, name) ==
    IF IsNone(group) THEN OkOpt(None)
    ELSE IF IsErr(config_from_str(Flatten(group.val)))
    THEN Err("parsing configuration", name)
    ELSE OkOpt(Some(config_from_str(Flatten(group.val)).val))

\* The Test the builder makes: no path and no inferred target yet.
build_conformance_test(captures) ==
    LET name == Flatten(captures.name)
        parsed == optional_group(captures.config, name)
    IN  IF IsErr(parsed) THEN parsed
        ELSE OkOpt([path |-> None,
                    file_name |-> name,
                    src |-> SourceLines_of(captures.source),
                    input |-> optional_json_group(captures.input),
                    output |-> optional_json_group(captures.output),
                    config |-> IF IsNone(parsed.val) THEN DefaultConfig
                               ELSE parsed.val.val,
                    inferred_target |-> None])

RECURSIVE collect(_)
\* collect::<Result<Vec<_>, _>>(): the values, or the first error.
collect(built) ==
    IF built = << >> THEN OkOpt(<< >>)
    ELSE IF IsErr(Head(built)) THEN Head(built)
    ELSE IF IsErr(collect(Tail(built))) THEN collect(Tail(built))
    ELSE OkOpt(<<Head(built).val>> \o collect(Tail(built)).val)

\* Tests::compile
Tests_compile(toks) ==
    LET captures == TestCaptures(toks, 1)
    IN  collect([n \in 1..Len(captures) |-> build_conformance_test(captures[n])])

-----------------------------------------------------------------------------
(* src/conformance/resource.rs: RESOURCE_REGEX, Resources::compile         *)

Fences == {"fence", "fence wdl", "fence json"}

\* The match of RESOURCE_REGEX that starts at token i: the name is
\* toks[i+3..j], the opening fence with any language toks[j+1], the
\* source toks[j+2..k].
ResourceMatchAt(toks, i) ==
    LET SourceEnds(j) ==
            {k \in (j + 1)..Len(toks) :
                /\ At(toks, k + 1, "fence")
                /\ At(toks, k + 2, "</summary>")
                /\ At(toks, k + 3, "</details>")}
        NameEnds ==
            {j \in (i + 3)..Len(toks) :
                /\ j + 1 <= Len(toks)
                /\ toks[j + 1].t \in Fences
                /\ SourceEnds(j) # {}}
        j == Least(NameEnds)
        k == Least(SourceEnds(j))
    IN  IF /\ At(toks, i, "<details>")
           /\ At(toks, i + 1, "<summary>")
           /\ At(toks, i + 2, "Resource:")
           /\ NameEnds # {}
        THEN [ok |-> TRUE, start |-> i, end |-> k + 3,
              name |-> SubSeq(toks, i + 3, j),
              source |-> SubSeq(toks, j + 2, k)]
        ELSE NoMatch

RECURSIVE ResourceCaptures(_, _)
\* RESOURCE_REGEX.captures_iter(contents)
ResourceCaptures(toks, i) ==
    IF i > Len(toks) THEN << >>
    ELSE IF IsMatch(ResourceMatchAt(toks, i))
    THEN <<ResourceMatchAt(toks, i)>>
             \o ResourceCaptures(toks, ResourceMatchAt(toks, i).end + 1)
    ELSE ResourceCaptures(toks, i + 1)

\* build_resource: both groups are there in every match.
build_resource(captures) ==
    [filename |-> Flatten(captures.name), src |-> Flatten(captures.source)]

\* Resources::compile
Resources_compile(toks) ==
    LET captures == ResourceCaptures(toks, 1)
    IN  [n \in 1..Len(captures) |-> build_resource(captures[n])]

-----------------------------------------------------------------------------
(* src/conformance/test/runner.rs: Runner::compile                         *)

RECURSIVE to_text(_)
\* The characters of a source: its lines, each with its line break.
to_text(lines) ==
    IF lines = << >> THEN << >>
    ELSE <<Head(lines).decl>> \o Head(lines).name \o <<"\n">> \o to_text(Tail(lines))

RECURSIVE inject_version(_, _)
\* Regex::replace of VERSION_REGEX: the first `version <v>` line gets the
\* injected version, a source without one stays as it is.
inject_version(lines, version) ==
    IF lines = << >> THEN << >>
    ELSE IF Head(lines).decl = "version"
    THEN <<VersionLine(version)>> \o Tail(lines)
    ELSE <<Head(lines)>> \o inject_version(Tail(lines), version)

\* Path::exists, for <root>/<name> and <root>/data/<name>.
exists(dir, name) == \E f \in root : f.dir = dir /\ f.name = name

\* std::fs::write of <root>/<name> fails where the parent directory is
\* missing: root_dir has no directory but `data`.
parent_missing(name) == \E i \in 1..Len(name) : name[i] = "/"

\* An error with the context Runner::compile attaches to it.
WithContext(context, name, error) ==
    [state |-> "err", kind |-> context, name |-> name, source |-> error]

\* Runner::compile returns an error, and main returns it.
CompileFails(error) ==
    /\ compiled' = error
    /\ run_result' = error
    /\ pc' = "failed"

\* ensure_empty_dir and the creation of `data`: entries in root_dir are
\* removed with --force and are an error without.
PrepareRoot ==
    /\ pc = "prepare"
    /\ IF root # {} /\ ~options.force
       THEN /\ CompileFails(Err("existing entries, --force was not provided", NoName))
            /\ UNCHANGED root
       ELSE /\ root' = {RootFile("", <<"data">>, Directory)}
            /\ pc' = "resources"
            /\ UNCHANGED <<compiled, run_result>>
    /\ UNCHANGED <<contents, options, resources, cursor>>
    /\ UNCHANGED <<tests, args, index, workdir, invoked, output, results, summary>>
    /\ UNCHANGED <<resolverVars, validatorVars, shellVars>>

\* Resources::compile(contents)
CompileResources ==
    /\ pc = "resources"
    /\ resources' = Resources_compile(contents)
    /\ cursor' = 1
    /\ pc' = "write_resources"
    /\ UNCHANGED <<contents, options, root, compiled>>
    /\ UNCHANGED <<tests, args, index, workdir, invoked, output, results, summary,
                   run_result>>
    /\ UNCHANGED <<resolverVars, validatorVars, shellVars>>

\* Variant: a resource is written over the one of the same name.
WriteResource_over ==
    /\ pc = "write_resources"
    /\ cursor <= Len(resources)
    /\ LET resource == resources[cursor]
       IN  /\ root' = {f \in root : ~(f.dir = "data" /\ f.name = resource.filename)}
                         \cup {RootFile("data", resource.filename, Bytes(resource.src))}
           /\ cursor' = cursor + 1
           /\ UNCHANGED <<compiled, run_result, pc>>
    /\ UNCHANGED <<contents, options, resources>>
    /\ UNCHANGED <<tests, args, index, workdir, invoked, output, results, summary>>
    /\ UNCHANGED <<resolverVars, validatorVars, shellVars>>

\* The body of `for resource in resources.iter()`.
WriteResource ==
    /\ pc = "write_resources"
    /\ cursor <= Len(resources)
    /\ LET resource == resources[cursor]
       IN  IF exists("data", resource.filename)
           THEN /\ CompileFails(Err("resource was attempted to be written multiple times",
                                    resource.filename))
                /\ UNCHANGED <<root, cursor>>
           ELSE /\ root' = root \cup {RootFile("data", resource.filename,
                                               Bytes(resource.src))}
                /\ cursor' = cursor + 1
                /\ UNCHANGED <<compiled, run_result, pc>>
    /\ UNCHANGED <<contents, options, resources>>
    /\ UNCHANGED <<tests, args, index, workdir, invoked, output, results, summary>>
    /\ UNCHANGED <<resolverVars, validatorVars, shellVars>>

\* Variant: the tests are extracted while resources are still to be
\* written, and those are left out.
CompileTests_before_resources ==
    /\ pc = "write_resources"
    /\ LET extracted == Tests_compile(contents)
       IN  IF IsErr(extracted)
           THEN /\ CompileFails(extracted)
                /\ UNCHANGED <<tests, cursor>>
           ELSE /\ tests' = extracted.val
                /\ cursor' = 1
                /\ pc' = "compile_tests"
                /\ UNCHANGED <<compiled, run_result>>
    /\ UNCHANGED <<contents, options, root, resources>>
    /\ UNCHANGED <<args, index, workdir, invoked, output, results, summary>>
    /\ UNCHANGED <<resolverVars, validatorVars, shellVars>>

\* Tests::compile(contents), once the resources are written.
CompileTests ==
    /\ pc = "write_resources"
    /\ cursor > Len(resources)
    /\ LET extracted == Tests_compile(contents)
       IN  IF IsErr(extracted)
           THEN /\ CompileFails(extracted)
                /\ UNCHANGED <<tests, cursor>>
           ELSE /\ tests' = extracted.val
                /\ cursor' = 1
                /\ pc' = "compile_tests"
                /\ UNCHANGED <<compiled, run_result>>
    /\ UNCHANGED <<contents, options, root, resources>>
    /\ UNCHANGED <<args, index, workdir, invoked, output, results, summary>>
    /\ UNCHANGED <<resolverVars, validatorVars, shellVars>>

\* Variant: the path is set before the target is inferred.
CompileTest_path_first ==
    /\ pc = "compile_tests"
    /\ cursor <= Len(tests)
    /\ LET test == tests[cursor]
           r == infer_and_validate_target(test.src, test.input, test.config.target,
                                          test.inferred_target)
           placed == [test EXCEPT !.path = Some(test.file_name),
                                  !.inferred_target = r.target]
       IN  IF IsErr(r.result)
           THEN /\ CompileFails(WithContext("inferring target for test",
                                            test.file_name, r.result))
                /\ tests' = [tests EXCEPT ![cursor] = placed]
                /\ UNCHANGED <<root, cursor>>
           ELSE IF exists("", test.file_name) \/ parent_missing(test.file_name)
           THEN /\ CompileFails(Err("conformance test could not be written",
                                    test.file_name))
                /\ tests' = [tests EXCEPT ![cursor] = placed]
                /\ UNCHANGED <<root, cursor>>
           ELSE /\ root' = root \cup {RootFile("", test.file_name, Bytes(to_text(test.src)))}
                /\ tests' = [tests EXCEPT ![cursor] = placed]
                /\ cursor' = cursor + 1
                /\ UNCHANGED <<compiled, run_result, pc>>
    /\ UNCHANGED <<contents, options, resources>>
    /\ UNCHANGED <<args, index, workdir, invoked, output, results, summary>>
    /\ UNCHANGED <<resolverVars, validatorVars, shellVars>>

\* Variant: a fixture whose target cannot be inferred is left out, and the
\* loop goes on.
CompileTest_best_effort ==
    /\ pc = "compile_tests"
    /\ cursor <= Len(tests)
    /\ LET test == tests[cursor]
           r == infer_and_validate_target(test.src, test.input, test.config.target,
                                          test.inferred_target)
           targeted == [test EXCEPT !.inferred_target = r.target]
       IN  IF IsErr(r.result)
           THEN /\ tests' = [n \in 1..(Len(tests) - 1) |->
                                IF n < cursor THEN tests[n] ELSE tests[n + 1]]
                /\ UNCHANGED <<root, cursor, compiled, run_result, pc>>
           ELSE IF exists("", test.file_name) \/ parent_missing(test.file_name)
           THEN /\ CompileFails(Err("conformance test could not be written",
                                    test.file_name))
                /\ tests' = [tests EXCEPT ![cursor] = targeted]
                /\ UNCHANGED <<root, cursor>>
           ELSE /\ root' = root \cup {RootFile("", test.file_name, Bytes(to_text(test.src)))}
                /\ tests' = [tests EXCEPT ![cursor] =
                                [targeted EXCEPT !.path = Some(test.file_name)]]
                /\ cursor' = cursor + 1
                /\ UNCHANGED <<compiled, run_result, pc>>
    /\ UNCHANGED <<contents, options, resources>>
    /\ UNCHANGED <<args, index, workdir, invoked, output, results, summary>>
    /\ UNCHANGED <<resolverVars, validatorVars, shellVars>>

\* The body of `for test in tests.tests_mut()`: the target, the check that
\* nothing is at the path, the write, the path.
CompileTest ==
    /\ pc = "compile_tests"
    /\ cursor <= Len(tests)
    /\ LET test == tests[cursor]
           r == infer_and_validate_target(test.src, test.input, test.config.target,
                                          test.inferred_target)
           targeted == [test EXCEPT !.inferred_target = r.target]
           text == IF IsSome(options.inject_wdl_version)
                   THEN inject_version(test.src, options.inject_wdl_version.val)
                   ELSE test.src
       IN  IF IsErr(r.result)
           THEN /\ CompileFails(WithContext("inferring target for test",
                                            test.file_name, r.result))
                /\ tests' = [tests EXCEPT ![cursor] = targeted]
                /\ UNCHANGED <<root, cursor>>
           ELSE IF exists("", test.file_name)
           THEN /\ CompileFails(Err("conformance test was attempted to be written multiple times",
                                    test.file_name))
                /\ tests' = [tests EXCEPT ![cursor] = targeted]
                /\ UNCHANGED <<root, cursor>>
           ELSE IF parent_missing(test.file_name)
           THEN /\ CompileFails(WithContext("writing conformance test",
                                            test.file_name, Err("No such file or directory", NoName)))
                /\ tests' = [tests EXCEPT ![cursor] = targeted]
                /\ UNCHANGED <<root, cursor>>
           ELSE /\ root' = root \cup {RootFile("", test.file_name, Bytes(to_text(text)))}
                /\ tests' = [tests EXCEPT ![cursor] =
                                [targeted EXCEPT !.path = Some(test.file_name)]]
                /\ cursor' = cursor + 1
                /\ UNCHANGED <<compiled, run_result, pc>>
    /\ UNCHANGED <<contents, options, resources>>
    /\ UNCHANGED <<args, index, workdir, invoked, output, results, summary>>
    /\ UNCHANGED <<resolverVars, validatorVars, shellVars>>

\* Ok(Self { root_dir, tests }): main goes on to its loop over the fixtures.
CompileDone ==
    /\ pc = "compile_tests"
    /\ cursor > Len(tests)
    /\ compiled' = Ok
    /\ pc' = "loop"
    /\ UNCHANGED <<contents, options, root, resources, cursor>>
    /\ UNCHANGED <<tests, args, index, workdir, invoked, output, results, summary,
                   run_result>>
    /\ UNCHANGED <<resolverVars, validatorVars, shellVars>>

NextCompile ==
    \/ PrepareRoot
    \/ CompileResources
    \/ WriteResource
    \/ CompileTests
    \/ CompileTest
    \/ CompileDone

-----------------------------------------------------------------------------
(* The markdown and the arguments main is run on.                          *)

\* A fenced JSON block under its label.
JsonBlock(label, text) ==
    <<Tok(label), Tok("fence json"), Text(text), Tok("fence")>>

\* The <p> section of an example.
Section(blocks) == <<Tok("<p>")>> \o blocks \o <<Tok("</p>")>>

\* An example: its name, its source and what follows the summary.
ExampleBlock(name, lines, section) ==
    <<Tok("<details>"), Tok("<summary>"), Tok("Example:"), Text(name),
      Tok("fence wdl"), Wdl(lines), Tok("fence"), Tok("</summary>")>>
        \o section \o <<Tok("</details>")>>

\* A resource: its name and its text.
ResourceBlock(name, text) ==
    <<Tok("<details>"), Tok("<summary>"), Tok("Resource:"), Text(name),
      Tok("fence"), Text(text), Tok("fence"), Tok("</summary>"),
      Tok("</details>")>>

FileName(c) == <<c>> \o DotWdl
Version12 == <<"1", ".", "2">>
Version13 == <<"1", ".", "3">>
OneTask(n) == <<VersionLine(Version12), TaskLine(Str1(n))>>

\* The blocks of a document: examples that compile, examples whose input or
\* output is not JSON, an example whose configuration is not one, examples
\* that fail to resolve or to be written, a resource, an example that is
\* not closed, and prose.
Blocks ==
    {ExampleBlock(FileName("a"), OneTask("a"), << >>),
     ExampleBlock(FileName("w"),
                  <<VersionLine(Version12), WorkflowLine(Str1("w")), TaskLine(Str1("a"))>>,
                  Section(JsonBlock("Example input:", <<"{", "}">>)
                              \o JsonBlock("Example output:", TrueText))),
     ExampleBlock(FileName("c"), OneTask("c"),
                  Section(JsonBlock("Example input:", <<"{">>)
                              \o JsonBlock("Example output:", <<"{">>))),
     ExampleBlock(FileName("d"), OneTask("d"),
                  Section(JsonBlock("Test config:", ObjectAText))),
     ExampleBlock(FileName("g"), OneTask("g"),
                  Section(JsonBlock("Test config:", IgnoreText))),
     ExampleBlock(FileName("u"), OneTask("u"),
                  Section(JsonBlock("Test config:", GpuText))),
     ExampleBlock(FileName("f"), <<TaskLine(Str1("a")), TaskLine(Str1("b"))>>,
                  Section(JsonBlock("Example output:", TrueText)
                              \o JsonBlock("Test config:", TargetAText))),
     ExampleBlock(FileName("t"), <<TaskLine(Str1("a")), TaskLine(Str1("b"))>>, << >>),
     ExampleBlock(<<"s", "/">> \o FileName("a"), OneTask("a"), << >>),
     ResourceBlock(Str1("r"), Str1("x")),
     <<Tok("<details>"), Tok("<summary>"), Tok("Example:"), Text(FileName("m")),
       Tok("fence wdl"), Wdl(OneTask("m"))>>,
     <<Text(Str1("p"))>>}

RECURSIVE DocumentsOf(_)
\* The documents of at most n blocks.
DocumentsOf(n) ==
    IF n = 0 THEN {<< >>}
    ELSE DocumentsOf(n - 1)
             \cup {d \o b : d \in DocumentsOf(n - 1), b \in Blocks}

\* How main is run: into an empty directory, into one with a file and
\* --force, with a version to inject and a filter, and into one with a
\* file without --force.
StaleFile == RootFile("", FileName("a"), Bytes(Str1("x")))
Runs ==
    {[options |-> [force |-> FALSE, inject_wdl_version |-> None],
      root |-> {},
      args |-> Args([capabilities |-> {}, all_capabilities |-> FALSE],
                    [include |-> {}, exclude |-> {}], FALSE, None)],
     [options |-> [force |-> TRUE, inject_wdl_version |-> Some(Version13)],
      root |-> {StaleFile},
      args |-> Args([capabilities |-> {}, all_capabilities |-> FALSE],
                    [include |-> {}, exclude |-> {<<"w">>}], TRUE, None)],
     [options |-> [force |-> FALSE, inject_wdl_version |-> None],
      root |-> {StaleFile},
      args |-> Args([capabilities |-> {}, all_capabilities |-> FALSE],
                    [include |-> {}, exclude |-> {}], FALSE, None)]}

\* main is entered: the markdown is read, nothing is compiled yet.
InitMain ==
    /\ contents \in DocumentsOf(MaxBlocks)
    /\ \E run \in Runs :
           /\ options = run.options
           /\ root = run.root
           /\ args = run.args
    /\ resources = << >>
    /\ cursor = 1
    /\ compiled = Pending
    /\ tests = << >>
    /\ index = 1
    /\ pc = "prepare"
    /\ workdir = {}
    /\ invoked = << >>
    /\ output = Pending
    /\ results = << >>
    /\ summary = Pending
    /\ run_result = Pending
    /\ ResolverIdle
    /\ ValidatorIdle
    /\ ShellIdle

\* main: Runner::compile, then the loop over the fixtures.
NextMain == NextCompile \/ NextDriver

SpecMain == InitMain /\ [][NextMain]_vars

-----------------------------------------------------------------------------
(* What the resolver's claims speak of.                                    *)

Decls == parse_wdl_declarations(src)
Resolved == resolved # Pending
HasWorkflow == IsSome(Decls.workflow)
HasSingleTarget == IsSome(single_target(Decls))
InputInference == infer_target_from_input(input, Decls)
\* The input JSON yields an inferred target.
HasInputTarget == ~IsErr(InputInference) /\ IsSome(InputInference.val)
\* The input is absent, not an object, or an empty object.
NoInputKeys ==
    \/ IsNone(input)
    \/ input.val.kind # "object"
    \/ DOMAIN input.val.fields = {}

ErrKind(k) == IsErr(resolved) /\ resolved.kind = k
IsConfigConflict ==
    \/ ErrKind("target should not be specified in config: inferred from the WDL")
    \/ ErrKind("target should not be specified in config: inferred from the input JSON")
ResolvedTo(t) == resolved = Ok /\ inferred_target = Some(t)
FailedWith(k) == ErrKind(k) /\ inferred_target = None

\* The text of a key before its first `.`, stated without the code's split:
\* the one leading part of the key that holds no `.` and ends the key or is
\* followed by a `.`.
PrefixOf(key) ==
    CHOOSE p \in {SubSeq(key, 1, n) : n \in 0..Len(key)} :
        /\ \A i \in 1..Len(p) : p[i] # Dot
        /\ (Len(p) = Len(key) \/ key[Len(p) + 1] = Dot)
KeyPrefixes ==
    IF NoInputKeys THEN {} ELSE {PrefixOf(k) : k \in DOMAIN input.val.fields}

-----------------------------------------------------------------------------
(* The resolver's claims, checked under SpecResolve.                       *)

\* C1: workflow dominance. A source in which a workflow w is found, with no
\* input and no explicit config target, resolves to Workflow(w) whatever the
\* number of task declarations; single_target is Workflow(w) whenever a
\* workflow name exists.
C1_WorkflowDominance ==
    (Resolved /\ HasWorkflow) =>
        /\ single_target(Decls) = Some(WorkflowTarget(Decls.workflow.val))
        /\ (IsNone(input) /\ IsNone(config_target)) =>
               ResolvedTo(WorkflowTarget(Decls.workflow.val))

\* A workflow among several tasks was resolved to the workflow.
C1_Witness ==
    /\ Resolved /\ HasWorkflow /\ Len(Decls.tasks) >= 2
    /\ IsNone(input) /\ IsNone(config_target)
    /\ ResolvedTo(WorkflowTarget(Decls.workflow.val))

C3_AgreeOrConflict ==
    (Resolved /\ HasSingleTarget /\ HasInputTarget /\ IsNone(config_target)) =>
        LET single == single_target(Decls).val
            inferred == InputInference.val.val
        IN  /\ (single = inferred) => ResolvedTo(single)
            /\ (single # inferred) =>
                   FailedWith("conflicting target inference")

\* A workflow w with a task a whose input keys are all prefixed `a.`.
C3_Witness ==
    /\ Resolved /\ IsNone(config_target)
    /\ Decls.workflow = Some(Str1("w"))
    /\ SeqContains(Decls.tasks, Str1("a"))
    /\ KeyPrefixes = {Str1("a")}
    /\ FailedWith("conflicting target inference")

C5_TargetRequired ==
    (/\ Resolved /\ ~HasWorkflow /\ Len(Decls.tasks) >= 2
     /\ NoInputKeys /\ IsNone(config_target)) =>
        FailedWith("target required in config")

\* Two tasks and an empty input object.
C5_Witness ==
    /\ Resolved /\ ~HasWorkflow /\ Len(Decls.tasks) >= 2
    /\ IsSome(input) /\ input.val = JObj(EmptyMap)
    /\ IsNone(config_target)
    /\ FailedWith("target required in config")

C8_ExplicitOnlyWithoutInput ==
    (Resolved /\ IsSome(config_target) /\ resolved = Ok) =>
        (~HasWorkflow /\ Len(Decls.tasks) >= 2 /\ IsNone(input))

-----------------------------------------------------------------------------
(* The validator's claims, checked under SpecValidate.                     *)

Validated == outcome # Pending

\* C9: validator reflexivity. Validating any value against itself with an
\* empty exclusion list is a match.
C9_Reflexive ==
    (Validated /\ actual = expected /\ exclude = {}) => outcome = Ok

\* An object that holds the path of an existing file was validated against
\* itself.
C9_Witness ==
    /\ Validated /\ actual = expected /\ exclude = {}
    /\ expected.kind = "object"
    /\ \E k \in DOMAIN expected.fields : expected.fields[k] = JStr(PathString)
    /\ PathString \in disk
    /\ outcome = Ok

\* C10: exclusion filtering is idempotent. Filtering what validate_outputs
\* has filtered, with the same exclusion list, changes nothing.
C10_FilterIdempotent ==
    Validated =>
        /\ filter_outputs(expected_filtered, exclude) = expected_filtered
        /\ filter_outputs(actual_filtered, exclude) = actual_filtered

\* The filter dropped the key `b` nested in `a`, excluded by its path `a.b`.
C10_Witness ==
    /\ Validated
    /\ exclude = {<<"a", ".", "b">>}
    /\ expected = JObj(Str1("a") :> JObj(Str1("b") :> JNull))
    /\ expected_filtered = JObj(Str1("a") :> JObj(EmptyMap))

-----------------------------------------------------------------------------
(* The comparison's claims, checked under SpecCompare.                     *)

\* The two values are the same wherever no excluded key stands above: an
\* object's keys that are not excluded, by name or by dotted path, are on
\* both sides with such values, arrays have such items one by one, and
\* anything else is equal.
RECURSIVE SameOutsideExcluded(_, _, _, _)
SameOutsideExcluded(e, a, excl, path) ==
    IF e.kind = "object" /\ a.kind = "object" THEN
        \A k \in (DOMAIN e.fields) \cup (DOMAIN a.fields) :
            LET p == IF path = << >> THEN k ELSE path \o <<".">> \o k
            IN  \/ k \in excl
                \/ p \in excl
                \/ /\ k \in DOMAIN e.fields
                   /\ k \in DOMAIN a.fields
                   /\ SameOutsideExcluded(e.fields[k], a.fields[k], excl, p)
    ELSE IF e.kind = "array" /\ a.kind = "array" THEN
        /\ Len(e.items) = Len(a.items)
        /\ \A i \in 1..Len(e.items) :
               SameOutsideExcluded(e.items[i], a.items[i], excl, path)
    ELSE e = a

\* A diagnostic path without its array indices: the dotted path of keys.
StripIndices(p) ==
    LET keys == SelectSeq(p, LAMBDA c : c \notin {"[", "]", "0", "1", "2", "3",
                                                  "4", "5", "6", "7", "8", "9"})
    IN  IF keys # << >> /\ Head(keys) = "." THEN Tail(keys) ELSE keys

\* The prefixes of a diagnostic path that end with a key.
KeyLocations(p) ==
    {SubSeq(p, 1, n) : n \in {m \in 1..Len(p) :
        /\ p[m] \notin {".", "]"}
        /\ (m = Len(p) \/ p[m + 1] \in {".", "["})}}

\* The key a key location ends with.
LastKey(q) ==
    LET s == StripIndices(q)
        dots == {i \in 1..Len(s) : s[i] = "."}
        start == IF dots = {} THEN 1
                 ELSE 1 + CHOOSE i \in dots : \A j \in dots : j <= i
    IN  SubSeq(s, start, Len(s))

\* The key at location q is excluded, by its name or by its dotted path.
ExcludedAt(q, excl) == LastKey(q) \in excl \/ StripIndices(q) \in excl

\* What validate_outputs says of the two values when nothing is excluded.
Unfiltered == validate_outputs(expected, actual, {}, disk).result

\* The two values differ, and only at or below excluded keys.
DifferOnlyWhereExcluded ==
    /\ Validated
    /\ expected # actual
    /\ exclude # {}
    /\ SameOutsideExcluded(expected, actual, exclude, << >>)

\* C11 as stated: two values that differ only at or below excluded keys
\* match, and without the exclusion they are a mismatch whose path is the
\* path of an excluded key.
C11_MismatchAtExcludedKey ==
    DifferOnlyWhereExcluded =>
        /\ outcome = Ok
        /\ IsErr(Unfiltered)
        /\ Unfiltered.path \in KeyLocations(Unfiltered.path)
        /\ ExcludedAt(Unfiltered.path, exclude)

\* C11: exclusion. Two values that differ only at or below excluded keys,
\* an excluded key on one side only included, match; without the exclusion
\* they match too when the validator does not tell them apart, and are
\* otherwise a mismatch whose path is at or below an excluded key.
C11_ExcludedKeysIgnored ==
    DifferOnlyWhereExcluded =>
        /\ outcome = Ok
        /\ IsErr(Unfiltered) =>
               \E q \in KeyLocations(Unfiltered.path) : ExcludedAt(q, exclude)

\* The key `b`, excluded by name, is in the actual output only: a match,
\* and an unexpected key at `b` when nothing is excluded.
C11_Witness ==
    /\ Validated
    /\ exclude = {Str1("b")}
    /\ expected = JObj(Str1("a") :> JBool(TRUE))
    /\ actual = JObj(Str1("a") :> JBool(TRUE) @@ Str1("b") :> JNull)
    /\ outcome = Ok
    /\ Unfiltered.kind = "unexpected key in actual output"
    /\ Unfiltered.path = Str1("b")

\* The validator finds nothing to tell the two values apart.
Matches(x, y) == validate_outputs(x, y, {}, disk).result = Ok

HasPrefix(p, q) == Len(p) >= Len(q) /\ SubSeq(p, 1, Len(q)) = q

\* The filtered values are objects of the one key k.
BothUnderKey(k) ==
    /\ expected_filtered.kind = "object" /\ DOMAIN expected_filtered.fields = {k}
    /\ actual_filtered.kind = "object" /\ DOMAIN actual_filtered.fields = {k}

\* What the claim on arrays asks of the result `res` of comparing the arrays
\* e and a found at `path`.
ArraysByLengthAndPosition(e, a, path, res) ==
    IF Len(e) # Len(a)
    THEN res = [state |-> "err", kind |-> "array length mismatch", path |-> path,
                exp |-> [count |-> Len(e)], act |-> [count |-> Len(a)]]
    ELSE LET differing == {i \in 1..Len(e) : ~Matches(e[i], a[i])}
         IN  /\ res = Ok <=> differing = {}
             /\ differing # {} =>
                    /\ IsErr(res)
                    /\ \E i \in differing :
                           HasPrefix(res.path, path \o <<"[">> \o Digits(i - 1) \o <<"]">>)

\* C12: arrays are compared by length and position. Arrays of different
\* lengths are a mismatch that gives the two counts; arrays of equal length
\* match exactly when the items match index by index, and otherwise the
\* mismatch is reported at or under `[i]` for an index i whose items differ.
\* Checked for arrays at the root and for arrays that are the one member of
\* an object.
C12_ArraysByLengthAndPosition ==
    Validated =>
        /\ (expected_filtered.kind = "array" /\ actual_filtered.kind = "array") =>
               ArraysByLengthAndPosition(expected_filtered.items,
                                         actual_filtered.items, << >>, outcome)
        /\ \A k \in ObjectKeys :
               (/\ BothUnderKey(k)
                /\ expected_filtered.fields[k].kind = "array"
                /\ actual_filtered.fields[k].kind = "array") =>
               ArraysByLengthAndPosition(expected_filtered.fields[k].items,
                                         actual_filtered.fields[k].items, k, outcome)

\* One item was expected under `a` and two came back.
C12_Witness ==
    /\ Validated
    /\ expected = JObj(Str1("a") :> JArr(<<JNull>>))
    /\ actual = JObj(Str1("a") :> JArr(<<JNull, JNull>>))
    /\ outcome.kind = "array length mismatch"
    /\ outcome.path = Str1("a")
    /\ outcome.exp = [count |-> 1] /\ outcome.act = [count |-> 2]

\* What the claim on objects asks of the result `res` of comparing the
\* objects e and a found at `path`.
ObjectsByKeySet(e, a, path, res) ==
    LET missing == (DOMAIN e) \ (DOMAIN a)
        extra == (DOMAIN a) \ (DOMAIN e)
        Loc(k) == IF path = << >> THEN k ELSE path \o <<".">> \o k
        differing == {k \in (DOMAIN e) \cap (DOMAIN a) : ~Matches(e[k], a[k])}
    IN  /\ missing # {} =>
               /\ IsErr(res) /\ res.kind = "missing key in actual output"
               /\ \E k \in missing : res.path = Loc(k)
        /\ (missing = {} /\ extra # {}) =>
               /\ IsErr(res) /\ res.kind = "unexpected key in actual output"
               /\ \E k \in extra : res.path = Loc(k)
        /\ (missing = {} /\ extra = {}) =>
               /\ res = Ok <=> differing = {}
               /\ differing # {} =>
                      /\ IsErr(res)
                      /\ \E k \in differing : HasPrefix(res.path, Loc(k))
        /\ res = Ok => DOMAIN e = DOMAIN a

\* C13: objects are compared by key set first. A key of expected that
\* actual lacks is a missing-key mismatch at the key's path; when there is
\* none, a key of actual that expected lacks is an unexpected-key mismatch
\* at the key's path; values are compared, under the keys of both sides,
\* only when the key sets are equal, and the objects match only then.
\* Checked for objects at the root and for objects that are the one member
\* of an object.
C13_ObjectsByKeySet ==
    Validated =>
        /\ (expected_filtered.kind = "object" /\ actual_filtered.kind = "object") =>
               ObjectsByKeySet(expected_filtered.fields, actual_filtered.fields,
                               << >>, outcome)
        /\ \A k \in ObjectKeys :
               (/\ BothUnderKey(k)
                /\ expected_filtered.fields[k].kind = "object"
                /\ actual_filtered.fields[k].kind = "object") =>
               ObjectsByKeySet(expected_filtered.fields[k].fields,
                               actual_filtered.fields[k].fields, k, outcome)

\* The engine gave the key `b` under `a` that was not expected there.
C13_Witness ==
    /\ Validated
    /\ exclude = {}
    /\ expected = JObj(Str1("a") :> JObj(Str1("a") :> JNull))
    /\ actual = JObj(Str1("a") :> JObj(Str1("a") :> JNull @@ Str1("b") :> JNull))
    /\ outcome.kind = "unexpected key in actual output"
    /\ outcome.path = <<"a", ".", "b">>

\* A location in a value: the keys and the indices (from 0) that lead to it.
KeyAt(k) == [key |-> k]
IndexAt(i) == [index |-> i]
IsKeyAt(c) == "key" \in DOMAIN c

RECURSIVE Render(_, _)
\* The dotted and bracketed text of a location, appended to `path`.
Render(loc, path) ==
    IF loc = << >> THEN path
    ELSE LET c == Head(loc)
             next == IF IsKeyAt(c)
                     THEN (IF path = << >> THEN c.key ELSE path \o <<".">> \o c.key)
                     ELSE path \o <<"[">> \o Digits(c.index) \o <<"]">>
         IN  Render(Tail(loc), next)

RECURSIVE Divergences(_, _, _)
\* Every location where e and a diverge: a key that one object lacks, two
\* arrays of different lengths, two values of different kinds, two scalars
\* the validator tells apart.
Divergences(e, a, loc) ==
    IF e.kind = "object" /\ a.kind = "object" THEN
        {Append(loc, KeyAt(k)) :
            k \in ((DOMAIN e.fields) \ (DOMAIN a.fields))
                      \cup ((DOMAIN a.fields) \ (DOMAIN e.fields))}
        \cup UNION {Divergences(e.fields[k], a.fields[k], Append(loc, KeyAt(k))) :
                        k \in (DOMAIN e.fields) \cap (DOMAIN a.fields)}
    ELSE IF e.kind = "array" /\ a.kind = "array" THEN
        (IF Len(e.items) # Len(a.items) THEN {loc} ELSE {})
        \cup UNION {Divergences(e.items[i], a.items[i], Append(loc, IndexAt(i - 1))) :
                        i \in (1..Len(e.items)) \cap (1..Len(a.items))}
    ELSE IF e.kind # a.kind \/ ~Matches(e, a) THEN {loc}
    ELSE {}

RECURSIVE DocumentBefore(_, _)
\* p comes before q in a left-to-right, depth-first traversal: a value
\* before its members, the members in the order of their keys or indices.
DocumentBefore(p, q) ==
    IF p = << >> THEN q # << >>
    ELSE IF q = << >> THEN FALSE
    ELSE IF Head(p) = Head(q) THEN DocumentBefore(Tail(p), Tail(q))
    ELSE IF IsKeyAt(Head(p)) THEN StrLess(Head(p).key, Head(q).key)
    ELSE Head(p).index < Head(q).index

\* The member of a value that a key or an index leads to.
Member(v, c) == IF IsKeyAt(c) THEN v.fields[c.key] ELSE v.items[c.index + 1]

RECURSIVE KeySetFirstBefore(_, _, _, _)
\* p comes before q in the traversal that settles the key set of an object
\* before it visits any member: a value before its members, the items of
\* an array by index, the keys of an object in the order: the keys only
\* expected has, the keys only actual has, the keys of both, each group in
\* key order.
KeySetFirstBefore(p, q, e, a) ==
    IF p = << >> THEN q # << >>
    ELSE IF q = << >> THEN FALSE
    ELSE IF Head(p) = Head(q)
         THEN KeySetFirstBefore(Tail(p), Tail(q), Member(e, Head(p)), Member(a, Head(p)))
    ELSE IF IsKeyAt(Head(p)) THEN
        LET Rank(k) == IF k \notin DOMAIN a.fields THEN 0
                       ELSE IF k \notin DOMAIN e.fields THEN 1 ELSE 2
            kp == Head(p).key
            kq == Head(q).key
        IN  Rank(kp) < Rank(kq) \/ (Rank(kp) = Rank(kq) /\ StrLess(kp, kq))
    ELSE Head(p).index < Head(q).index

FilteredDivergences == Divergences(expected_filtered, actual_filtered, << >>)

\* C14 as stated: the one diagnosis is for the first divergence of the
\* filtered values in a left-to-right, depth-first traversal, and its path
\* is the dotted and bracketed location of that divergence.
C14_FirstInDocumentOrder ==
    Validated =>
        /\ outcome = Ok <=> FilteredDivergences = {}
        /\ FilteredDivergences # {} =>
               /\ IsErr(outcome)
               /\ \E d \in FilteredDivergences :
                      /\ Render(d, << >>) = outcome.path
                      /\ \A o \in FilteredDivergences \ {d} : DocumentBefore(d, o)

\* C14: one diagnosis, for the first divergence. The values match exactly
\* when they diverge nowhere; otherwise the one diagnosis is for the first
\* divergence of the filtered values in the depth-first traversal that, at
\* each object, reports a key only expected has, then a key only actual
\* has, before it compares any member, and its path is the dotted and
\* bracketed location of that divergence.
C14_FirstInKeySetFirstOrder ==
    Validated =>
        /\ outcome = Ok <=> FilteredDivergences = {}
        /\ FilteredDivergences # {} =>
               /\ IsErr(outcome)
               /\ \E d \in FilteredDivergences :
                      /\ Render(d, << >>) = outcome.path
                      /\ \A o \in FilteredDivergences \ {d} :
                             KeySetFirstBefore(d, o, expected_filtered, actual_filtered)

\* `a` came back with another value and `b` did not come back: the missing
\* key `b` is the diagnosis, not the mismatch at `a`.
C14_Witness ==
    /\ Validated
    /\ exclude = {}
    /\ expected = JObj(Str1("a") :> JBool(TRUE) @@ Str1("b") :> JBool(TRUE))
    /\ actual = JObj(Str1("a") :> JBool(FALSE))
    /\ FilteredDivergences = {<<KeyAt(Str1("a"))>>, <<KeyAt(Str1("b"))>>}
    /\ outcome.kind = "missing key in actual output"
    /\ outcome.path = Str1("b")

-----------------------------------------------------------------------------
(* The driver's claims, checked under SpecFixture and SpecRun.             *)

\* The step on which execute_and_evaluate_test gives the result of a test
\* whose command was spawned.
EvaluatesSpawned ==
    /\ pc = "evaluate"
    /\ pc' = "loop"
    /\ output.state = "ok"

\* The result the step stores.
StoredResult == results[Len(results)].result

\* The exit code of the command that ran: -1 if a signal ended it.
ExitCode == IF output.status = None THEN -1 ELSE output.status.val

\* The exit code satisfies the return-code spec of the current test.
ExitCodeSatisfies ==
    LET rc == CurrentTest.config.return_code
    IN  \/ rc.tag = "Any"
        \/ rc.tag = "Single" /\ rc.code = ExitCode
        \/ rc.tag = "Multiple" /\ \E i \in 1..Len(rc.codes) : rc.codes[i] = ExitCode

\* --redirect-stdout is given and the command left a directory where its
\* standard output is to be written.
StdoutUnwritable ==
    /\ args.redirect_stdout
    /\ \E f \in workdir : f.path = OutputsJson /\ f.bytes = Directory

\* C15 as stated: when the command of a fixture marked `fail: true` was
\* spawned, the result is Passed if the exit code is not zero and
\* Failed(UnexpectedSuccess) if it is zero.
C15_ExpectedFailureOnceSpawned ==
    [][(EvaluatesSpawned /\ CurrentTest.config.fail) =>
           StoredResult' = IF output.status = Some(0)
                           THEN Failed(UnexpectedSuccess) ELSE Passed]_vars

\* C15: expected-failure mode. When the command of a fixture marked
\* `fail: true` was spawned and, under --redirect-stdout, its standard
\* output could be written to `outputs.json`, the result is Passed if the
\* exit code is not zero and Failed(UnexpectedSuccess) if it is zero,
\* whatever the return code spec, the expected output and the contents of
\* `outputs.json`; if the standard output could not be written, the result
\* is Failed(ExecutionError) whatever the exit code.
C15_ExpectedFailure ==
    [][(EvaluatesSpawned /\ CurrentTest.config.fail) =>
           IF StdoutUnwritable
           THEN StoredResult' = Failed(ExecutionError(
                                    "failed to write stdout to outputs.json"))
           ELSE StoredResult' = IF output.status = Some(0)
                                THEN Failed(UnexpectedSuccess) ELSE Passed]_vars

\* A fixture expected to fail, whose return code spec asks for 0 and which
\* has an expected output, passed under --redirect-stdout: its command did
\* not exit with 0.
C15_Witness ==
    /\ Len(tests) = 1 /\ Len(results) = 1
    /\ args.redirect_stdout
    /\ tests[1].config.fail
    /\ tests[1].config.return_code = Single(0)
    /\ IsSome(tests[1].output)
    /\ results[1].result = Passed

\* C16 as stated: when the command of a fixture not marked `fail` was
\* spawned, an exit code that does not satisfy the return-code spec gives
\* Failed(ReturnCodeMismatch), and one that satisfies it gives Passed when
\* there is no expected output.
C16_ReturnCodeCheckOnceSpawned ==
    [][(EvaluatesSpawned /\ ~CurrentTest.config.fail) =>
           /\ ~ExitCodeSatisfies =>
                  StoredResult' = Failed(ReturnCodeMismatch(
                                      CurrentTest.config.return_code, ExitCode))
           /\ (ExitCodeSatisfies /\ CurrentTest.output = None) =>
                  StoredResult' = Passed]_vars

\* C16: return-code check. When the command of a fixture not marked `fail`
\* was spawned and, under --redirect-stdout, its standard output could be
\* written to `outputs.json`, an exit code that does not satisfy the
\* return-code spec gives Failed(ReturnCodeMismatch) with the spec and the
\* code, whatever `outputs.json` holds, and an exit code that satisfies it
\* gives Passed when there is no expected output; if the standard output
\* could not be written, the result is Failed(ExecutionError).
C16_ReturnCodeCheck ==
    [][(EvaluatesSpawned /\ ~CurrentTest.config.fail) =>
           IF StdoutUnwritable
           THEN StoredResult' = Failed(ExecutionError(
                                    "failed to write stdout to outputs.json"))
           ELSE /\ ~ExitCodeSatisfies =>
                       StoredResult' = Failed(ReturnCodeMismatch(
                                           CurrentTest.config.return_code, ExitCode))
                /\ (ExitCodeSatisfies /\ CurrentTest.output = None) =>
                       StoredResult' = Passed]_vars

\* A fixture with `return_code: [1, 2]` and no expected output passed.
C16_Witness ==
    /\ Len(tests) = 1 /\ Len(results) = 1
    /\ ~tests[1].config.fail
    /\ tests[1].config.return_code = Multiple(<<1, 2>>)
    /\ tests[1].output = None
    /\ results[1].result = Passed

\* The fixture a result is for, and its position.
TurnOf(name) == CHOOSE i \in 1..Len(tests) : tests[i].file_name = name

\* The required capabilities of a test that are not enabled.
AbsentCapabilities(t) ==
    {t.config.capabilities[i] : i \in 1..Len(t.config.capabilities)}
        \ EnabledCapabilities(args)

\* What is asked of the result r of a skipped fixture.
SkippedAsAsked(r) ==
    LET turn == TurnOf(r.name)
        t == tests[turn]
        caps == r.result.reason.caps
    IN  /\ t.config.ignore => r.result = Skipped(Ignored)
        /\ (~t.config.ignore /\ AbsentCapabilities(t) # {}) =>
               /\ r.result.tag = "Skipped"
               /\ r.result.reason.tag = "MissingCapabilities"
               /\ {caps[i] : i \in 1..Len(caps)} = AbsentCapabilities(t)
               /\ Len(caps) = Cardinality(AbsentCapabilities(t))
        /\ r.result.tag = "Skipped" =>
               /\ t.config.ignore \/ AbsentCapabilities(t) # {}
               /\ ~SeqContains(invoked, r.name)
               /\ \A f \in workdir : f.written_for # turn

\* C17: skipping comes before execution. An ignored fixture ends as
\* Skipped(Ignored), a fixture that is not ignored and lacks a required
\* capability ends as Skipped(MissingCapabilities) listing exactly the
\* absent ones; the command is never invoked for a skipped fixture, and the
\* step that skips it leaves the working directory as it is.
C17_SkipBeforeExecution ==
    /\ [](\A j \in 1..Len(results) : SkippedAsAsked(results[j]))
    /\ [][(Len(results') = Len(results) + 1 /\ StoredResult'.tag = "Skipped") =>
              (workdir' = workdir /\ invoked' = invoked)]_vars

\* After a fixture that ran and passed, a fixture that requires `cpu` and
\* `gpu` was skipped for `gpu`; the files of the first are still there.
C17_Witness ==
    /\ Len(results) = 2
    /\ results[1].result = Passed
    /\ tests[2].config.capabilities = <<"cpu", "gpu">>
    /\ results[2].result = Skipped(MissingCapabilities(<<"gpu">>))
    /\ invoked = <<tests[1].file_name>>
    /\ workdir # {}
    /\ \A f \in workdir : f.written_for = 1

\* The file names of the fixtures before position n that --include and
\* --exclude let through, in document order.
VisitedNames(n) ==
    LET kept == SelectSeq([i \in 1..(n - 1) |-> tests[i]],
                          LAMBDA t : ~FilteredOut(t, args))
    IN  [i \in 1..Len(kept) |-> kept[i].file_name]

\* C18: no fixture's failure ends the run. The results are those of the
\* fixtures visited so far that were not filtered out, one each and in
\* document order; the run ends only once every fixture was visited, and a
\* fixture that failed is followed by the next one.
C18_EveryFixtureGetsAResult ==
    /\ [i \in 1..Len(results) |-> results[i].name] = VisitedNames(index)
    /\ \A i \in 1..Len(results) :
           results[i].result.tag \in {"Passed", "Failed", "Skipped"}
    /\ pc = "done" =>
           /\ index = Len(tests) + 1
           /\ [i \in 1..Len(results) |-> results[i].name]
                  = VisitedNames(Len(tests) + 1)

\* `bash` could not be spawned for the first fixture, which failed, and the
\* second fixture was run and passed.
C18_Witness ==
    /\ pc = "done"
    /\ Len(results) = 2
    /\ results[1].result = Failed(ExecutionError("spawn"))
    /\ results[2].result = Passed
    /\ Len(invoked) = 2

\* The number of results of the given kind.
TagCount(tag) == Cardinality({i \in 1..Len(results) : results[i].result.tag = tag})

\* C19: the run succeeds exactly when no fixture failed. Once main has
\* returned, it returned Ok if and only if no result is Failed, and the
\* total it printed and gave to the badge is the number of Passed plus the
\* number of Failed results, Skipped ones left out.
C19_SuccessIffNoFailure ==
    pc = "done" =>
        /\ run_result = Ok <=> TagCount("Failed") = 0
        /\ summary.passed = TagCount("Passed")
        /\ summary.failed = TagCount("Failed")
        /\ summary.skipped = TagCount("Skipped")
        /\ summary.total = TagCount("Passed") + TagCount("Failed")
        /\ summary.badge.passed = TagCount("Passed")
        /\ summary.badge.total = TagCount("Passed") + TagCount("Failed")

\* One fixture passed and one was skipped: the run succeeded, 1 of 1.
C19_Witness ==
    /\ pc = "done"
    /\ TagCount("Passed") = 1 /\ TagCount("Skipped") = 1 /\ TagCount("Failed") = 0
    /\ run_result = Ok
    /\ summary.total = 1
    /\ summary.badge.color = "brightgreen"

\* C20: working-directory isolation. When the command of a fixture is about
\* to be invoked, the working directory holds the copy of the data
\* directory and `inputs.json`, written for this fixture, and nothing
\* else; when its result is evaluated, every file there, `outputs.json`
\* included, was written during this fixture's turn.
C20_WorkdirIsolation ==
    /\ pc \in {"invoke", "evaluate"} =>
           \A f \in workdir : f.written_for = index
    /\ pc = "invoke" =>
           {f.path : f \in workdir}
               = {InputsJson} \cup {<<"data", d.name>> : d \in DataDir}

\* Two fixtures with the same expected output: the first passed, so it left
\* the expected `outputs.json`; the second wrote none and failed for it.
C20_Witness ==
    /\ Len(results) = 2
    /\ tests[1].output = Some(JBool(TRUE)) /\ ~tests[1].config.fail
    /\ tests[2].output = Some(JBool(TRUE)) /\ ~tests[2].config.fail
    /\ results[1].result = Passed
    /\ results[2].result = Failed(NoOutput)
    /\ \A f \in workdir : f.path # OutputsJson

-----------------------------------------------------------------------------
(* The resolver's reachability claims, checked under SpecResolve.          *)

\* The errors of the named arms and of the input inference.
NamedErrors ==
    {"target should not be specified in config: inferred from the WDL",
     "target should not be specified in config: inferred from the input JSON",
     "conflicting target inference",
     "ambiguous input prefixes",
     "target required in config",
     "target not found in tasks",
     "input prefix does not match any workflow or task",
     "no workflow or task found in WDL source"}

\* C27: the catch-all arm is unreachable. Whatever the declarations of the
\* source, the input JSON and the explicit target are, resolution ends with
\* a resolved target or with one of the named errors, never with
\* `unexpected target inference state`.
C27_CatchAllUnreachable ==
    Resolved =>
        /\ ~ErrKind("unexpected target inference state")
        /\ \/ resolved = Ok /\ IsSome(inferred_target)
           \/ IsErr(resolved) /\ resolved.kind \in NamedErrors /\ inferred_target = None

\* Declarations that leave no single target only if the workflow is
\* overlooked: a workflow and two tasks, no input, no explicit target.
C27_Witness ==
    /\ Resolved /\ HasWorkflow /\ Len(Decls.tasks) = 2
    /\ IsNone(input) /\ IsNone(config_target)
    /\ resolved = Ok /\ inferred_target = Some(WorkflowTarget(Decls.workflow.val))

\* The names the source declares, read off its lines.
WorkflowNames == {src[i].name : i \in {j \in 1..Len(src) : src[j].decl = "workflow"}}
TaskNames == {src[i].name : i \in {j \in 1..Len(src) : src[j].decl = "task"}}

\* C28: a resolved target names a declaration of the source. Workflow(n)
\* implies that n is the workflow of the source (the first one declared),
\* Task(n) implies that n is one of its tasks, and a source with a workflow
\* never resolves to a Task.
C28_TargetIsDeclared ==
    (Resolved /\ resolved = Ok) =>
        /\ IsSome(inferred_target)
        /\ inferred_target.val.kind = "Workflow" =>
               /\ inferred_target.val.name \in WorkflowNames
               /\ \E i \in 1..Len(src) :
                      /\ src[i] = WorkflowLine(inferred_target.val.name)
                      /\ \A j \in 1..(i - 1) : src[j].decl # "workflow"
        /\ inferred_target.val.kind = "Task" =>
               /\ inferred_target.val.name \in TaskNames
               /\ WorkflowNames = {}
        /\ inferred_target.val.kind \in {"Workflow", "Task"}

\* Two tasks and the explicit target `b`: Task(b).
C28_Witness ==
    /\ Resolved /\ WorkflowNames = {}
    /\ TaskNames = {Str1("a"), Str1("b")}
    /\ config_target = Some(Str1("b"))
    /\ ResolvedTo(TaskTarget(Str1("b")))

-----------------------------------------------------------------------------
(* The driver's claim on `inputs.json`, checked under SpecFixture.         *)

\* The text in `inputs.json` of the working directory, if the file is there.
InputsJsonText ==
    {f.bytes.text : f \in {g \in workdir : g.path = InputsJson /\ g.bytes.utf8}}

\* C21: when the command of a fixture is about to be invoked, the working
\* directory holds an `inputs.json` written for this fixture, whose text is
\* the serialization of the fixture's input if it has one and of the empty
\* JSON object if it has none.
C21_InputsJsonHoldsInputOrEmptyObject ==
    pc = "invoke" =>
        /\ \E f \in workdir : f.path = InputsJson /\ f.written_for = index
        /\ \A text \in InputsJsonText :
               from_str(text) = OkOpt(IF IsSome(CurrentTest.input)
                                      THEN CurrentTest.input.val
                                      ELSE JObj(EmptyMap))

-----------------------------------------------------------------------------
(* The claim on the command, checked under SpecSubstitute.                 *)

\* The target arguments of the kind of the call's target.
ArgsOfKind ==
    IF call.val.target.kind = "Workflow" THEN call.val.workflow_target_args
    ELSE call.val.task_target_args

RECURSIVE Expand(_)
\* The text s with every occurrence of a placeholder replaced by the value
\* of the call for it, the values themselves left as they are.
Expand(s) ==
    LET Starts(p) == Len(s) >= Len(p) /\ SubSeq(s, 1, Len(p)) = p
        After(p) == SubSeq(s, Len(p) + 1, Len(s))
    IN  IF s = << >> THEN s
        ELSE IF Starts(PathPlaceholder)
        THEN call.val.path \o Expand(After(PathPlaceholder))
        ELSE IF Starts(InputPlaceholder)
        THEN call.val.input \o Expand(After(InputPlaceholder))
        ELSE IF Starts(OutputPlaceholder)
        THEN call.val.output \o Expand(After(OutputPlaceholder))
        ELSE IF Starts(TargetPlaceholder)
        THEN call.val.target.name \o Expand(After(TargetPlaceholder))
        ELSE <<Head(s)>> \o Expand(Tail(s))

\* s without the white space at its ends.
Trimmed(s) ==
    CHOOSE t \in {SubSeq(s, i, j) : i \in 1..(Len(s) + 1), j \in 0..Len(s)} :
        /\ \E i \in 1..(Len(s) + 1), j \in 0..Len(s) :
               /\ t = SubSeq(s, i, j)
               /\ \A k \in (1..(i - 1)) \cup ((j + 1)..Len(s)) : s[k] \in Whitespace
               /\ j >= i - 1
        /\ t = << >> \/ (t[1] \notin Whitespace /\ t[Len(t)] \notin Whitespace)

\* The template followed by the target arguments of the target's kind.
WholeTemplate == call.val.command \o <<" ">> \o ArgsOfKind

\* C26: the command is the template followed by the arguments of
\* the target's kind, with every occurrence of a placeholder replaced by the
\* fixture's file path, input path, output path or target name.
C26_EveryPlaceholderReplacedByItsValue ==
    command # Pending => command.val = Trimmed(Expand(WholeTemplate))

-----------------------------------------------------------------------------
(* C25: one fixture per well-formed test block, one resource per           *)
(* well-formed resource block, in document order.                          *)

\* The kinds of the tokens i to e.
TokenTypes(toks, i, e) == [n \in 1..(e - i + 1) |-> toks[i + n - 1].t]

\* A block of a label: the label, the opening fence, the text, the closing
\* fence.
JsonLayout(label) == <<label, "fence json", "text", "fence">>

\* What a well-formed example is made of: the summary with the name and the
\* fenced source, then nothing or a section whose blocks are in the order
\* input, output, configuration.
ExampleLayouts ==
    {<<"<details>", "<summary>", "Example:", "text", "fence wdl", "text",
       "fence", "</summary>">> \o section \o <<"</details>">> :
        section \in {<< >>} \cup
            {<<"<p>">> \o in \o out \o cfg \o <<"</p>">> :
                in \in {<< >>, JsonLayout("Example input:")},
                out \in {<< >>, JsonLayout("Example output:")},
                cfg \in {<< >>, JsonLayout("Test config:")}}}

\* What a well-formed resource is made of.
ResourceLayouts ==
    {<<"<details>", "<summary>", "Resource:", "text", fence, "text", "fence",
       "</summary>", "</details>">> : fence \in Fences}

\* A well-formed example starts at token i: it has the layout of one, and
\* its configuration, if it has one, is one.
WellFormedExampleAt(toks, i) ==
    \E e \in i..Len(toks) :
        /\ toks[i].t = "<details>"
        /\ toks[e].t = "</details>"
        /\ TokenTypes(toks, i, e) \in ExampleLayouts
        /\ \A q \in i..e :
               toks[q].t = "Test config:" => ~IsErr(config_from_str(toks[q + 2].s))

\* A well-formed resource starts at token i.
WellFormedResourceAt(toks, i) ==
    \E e \in i..Len(toks) :
        /\ toks[i].t = "<details>"
        /\ toks[e].t = "</details>"
        /\ TokenTypes(toks, i, e) \in ResourceLayouts

RECURSIVE WellFormedExampleNames(_, _)
\* The names of the well-formed examples from token i on, in their order.
WellFormedExampleNames(toks, i) ==
    IF i > Len(toks) THEN << >>
    ELSE IF WellFormedExampleAt(toks, i)
    THEN <<toks[i + 3].s>> \o WellFormedExampleNames(toks, i + 1)
    ELSE WellFormedExampleNames(toks, i + 1)

RECURSIVE WellFormedResourceNames(_, _)
\* The names of the well-formed resources from token i on, in their order.
WellFormedResourceNames(toks, i) ==
    IF i > Len(toks) THEN << >>
    ELSE IF WellFormedResourceAt(toks, i)
    THEN <<toks[i + 3].s>> \o WellFormedResourceNames(toks, i + 1)
    ELSE WellFormedResourceNames(toks, i + 1)

\* Resources::compile has returned, Tests::compile has returned its tests.
ResourcesExtracted ==
    pc \in {"write_resources", "compile_tests", "loop", "invoke", "evaluate", "done"}
TestsExtracted == pc \in {"compile_tests", "loop", "invoke", "evaluate", "done"}

\* C25: the resources Resources::compile returns are the well-formed
\* resource blocks of the markdown, and the fixtures Tests::compile returns
\* its well-formed test blocks, as many and in the order of the text.
C25_OneFixturePerWellFormedBlock ==
    /\ ResourcesExtracted =>
           [n \in 1..Len(resources) |-> resources[n].filename]
               = WellFormedResourceNames(contents, 1)
    /\ TestsExtracted =>
           [n \in 1..Len(tests) |-> tests[n].file_name]
               = WellFormedExampleNames(contents, 1)

-----------------------------------------------------------------------------
(* C29: an input or output block that is not JSON counts as absent.        *)

\* The end of the block that starts at token i.
BlockEnd(toks, i) == Least({e \in i..Len(toks) : toks[e].t = "</details>"})

\* The markdown has a well-formed example of the name whose block of the
\* label holds text that is not JSON.
HasUnparsable(name, label) ==
    \E i \in 1..Len(contents) :
        /\ contents[i].t = "<details>"
        /\ i + 3 <= Len(contents)
        /\ contents[i + 3].s = name
        /\ WellFormedExampleAt(contents, i)
        /\ \E q \in i..BlockEnd(contents, i) :
               /\ contents[q].t = label
               /\ IsErr(from_str(contents[q + 2].s))

\* Some configuration block of the markdown is not a configuration.
SomeConfigMalformed ==
    \E q \in 1..Len(contents) :
        /\ contents[q].t = "Test config:"
        /\ q + 2 <= Len(contents)
        /\ IsErr(config_from_str(contents[q + 2].s))

\* The extraction: the fixture has no input, or no output, where the block
\* is not JSON, and Tests::compile fails over a configuration only.
UnparsableIsAbsent ==
    /\ TestsExtracted =>
           \A n \in 1..Len(tests) :
               /\ HasUnparsable(tests[n].file_name, "Example input:") =>
                      tests[n].input = None
               /\ HasUnparsable(tests[n].file_name, "Example output:") =>
                      tests[n].output = None
    /\ (pc = "failed" /\ compiled.kind = "parsing configuration") =>
           SomeConfigMalformed

\* The command of a fixture not marked `fail`, whose output block is not
\* JSON, was spawned and is evaluated.
EvaluatesUnparsable ==
    /\ EvaluatesSpawned
    /\ ~CurrentTest.config.fail
    /\ HasUnparsable(CurrentTest.file_name, "Example output:")

\* The result the return code alone gives.
ByReturnCode ==
    IF ExitCodeSatisfies THEN Passed
    ELSE Failed(ReturnCodeMismatch(CurrentTest.config.return_code, ExitCode))

\* C29 as stated: an input or output block that is not JSON is as absent,
\* only a configuration that is malformed makes the compile fail, and a
\* fixture not marked `fail` whose output block is not JSON gets, once its
\* command was spawned, the result its return code gives: Passed if the
\* code satisfies the return-code spec.
C29_UnparsableBlockIsAbsentOnceSpawned ==
    /\ []UnparsableIsAbsent
    /\ [][EvaluatesUnparsable => StoredResult' = ByReturnCode]_vars

\* C29: an input or output block that is not JSON is as absent, only a
\* configuration that is malformed makes the compile fail, and a fixture
\* not marked `fail` whose output block is not JSON gets, once its command
\* was spawned and, under --redirect-stdout, its standard output could be
\* written to `outputs.json`, the result its return code gives, with no
\* look at `outputs.json`; if the standard output could not be written,
\* the result is Failed(ExecutionError).
C29_UnparsableBlockIsAbsent ==
    /\ []UnparsableIsAbsent
    /\ [][EvaluatesUnparsable =>
              StoredResult' = IF StdoutUnwritable
                              THEN Failed(ExecutionError(
                                       "failed to write stdout to outputs.json"))
                              ELSE ByReturnCode]_vars

\* A fixture whose output block is not JSON passed, though its command left
\* `false` at `outputs.json`.
C29_Witness ==
    /\ Len(results) >= 1
    /\ HasUnparsable(results[Len(results)].name, "Example output:")
    /\ results[Len(results)].result = Passed
    /\ \E f \in workdir : f.path = OutputsJson /\ f.bytes = Bytes(FalseText)

-----------------------------------------------------------------------------
(* C22: no file is written twice.                                          *)

\* Runner::compile is past ensure_empty_dir and has not returned.
Compiling == pc \in {"resources", "write_resources", "compile_tests"}

\* The loop over the resources is at one whose name is taken in `data`.
AtTakenResource ==
    /\ pc = "write_resources"
    /\ cursor <= Len(resources)
    /\ \E f \in root : f.dir = "data" /\ f.name = resources[cursor].filename

\* The loop over the fixtures is at one that has the file name of a
\* fixture written before.
AtTakenTest ==
    /\ pc = "compile_tests"
    /\ cursor <= Len(tests)
    /\ \E j \in 1..(cursor - 1) : tests[j].file_name = tests[cursor].file_name

\* No two members of a sequence of names are the same.
PairwiseDistinct(names) ==
    \A i, j \in 1..Len(names) : i # j => names[i] # names[j]

\* C22: once root_dir is prepared, a step of Runner::compile leaves every
\* file of root_dir as it is; at a resource whose name is taken in `data`,
\* and at a fixture whose file name is that of a fixture written before,
\* Runner::compile returns an error and writes nothing; and when it has
\* returned Ok, no two fixtures have the same file name and no two
\* resources the same name.
C22_NoFileWrittenTwice ==
    /\ [][Compiling => \A f \in root : f \in root']_vars
    /\ [][(AtTakenResource \/ AtTakenTest) =>
              /\ pc' = "failed"
              /\ IsErr(compiled')
              /\ root' = root]_vars
    /\ [](compiled = Ok =>
              /\ PairwiseDistinct([n \in 1..Len(tests) |-> tests[n].file_name])
              /\ PairwiseDistinct([n \in 1..Len(resources) |-> resources[n].filename]))

\* Runner::compile has failed at the second of two fixtures of one file
\* name, with the file of the first on disk.
C22_Witness ==
    /\ pc = "failed"
    /\ Len(tests) = 2
    /\ cursor = 2
    /\ tests[1].file_name = tests[2].file_name
    /\ IsSome(tests[1].path)
    /\ compiled.kind = "conformance test was attempted to be written multiple times"

-----------------------------------------------------------------------------
(* C23: Runner::compile is all or nothing.                                 *)

\* The loop over the fixtures is at one whose target cannot be inferred or
\* whose file cannot be written.
AtFailingTest ==
    /\ pc = "compile_tests"
    /\ cursor <= Len(tests)
    /\ \/ IsErr(infer_and_validate_target(
                    tests[cursor].src, tests[cursor].input,
                    tests[cursor].config.target, None).result)
       \/ parent_missing(tests[cursor].file_name)

\* The errors of the loop over the fixtures.
TestErrors ==
    {"inferring target for test", "writing conformance test",
     "conformance test was attempted to be written multiple times"}

\* C23: at a fixture whose target cannot be inferred or whose file cannot
\* be written Runner::compile returns an error; the error of a fixture
\* names that fixture; main returns the error of Runner::compile and does
\* nothing more: no command was invoked, no fixture has a result; and a
\* command is invoked only when Runner::compile has returned Ok.
C23_AllOrNothing ==
    /\ [][AtFailingTest => (pc' = "failed" /\ IsErr(compiled'))]_vars
    /\ [][pc = "failed" => FALSE]_vars
    /\ [](pc = "failed" =>
              /\ IsErr(compiled)
              /\ run_result = compiled
              /\ compiled.kind \in TestErrors =>
                     compiled.name = tests[cursor].file_name
              /\ invoked = << >>
              /\ results = << >>
              /\ workdir = {})
    /\ []((invoked # << >> \/ results # << >>) => compiled = Ok)

\* The target of the second of two fixtures could not be inferred, after
\* the first was written: main has returned the error, nothing was run.
C23_Witness ==
    /\ pc = "failed"
    /\ Len(tests) = 2
    /\ cursor = 2
    /\ IsSome(tests[1].path)
    /\ compiled.kind = "inferring target for test"
    /\ compiled.name = tests[2].file_name
    /\ invoked = << >>

-----------------------------------------------------------------------------
(* C24: the life of a fixture's target and path.                           *)

\* What the resolver gives for a fixture as Tests::compile built it.
ResolverGives(test) ==
    infer_and_validate_target(test.src, test.input, test.config.target, None)

\* The loop of Runner::compile has not come to the fixture n, or has failed
\* to infer its target.
NotResolved(n) ==
    \/ pc = "compile_tests" /\ n >= cursor
    \/ pc = "failed" /\ n > cursor
    \/ pc = "failed" /\ n = cursor /\ compiled.kind = "inferring target for test"

\* C24: a fixture has no target as long as its resolution has not
\* succeeded, and none after a resolution that failed; a step gives a
\* fixture a target only if it is the step of Runner::compile for that
\* fixture, and then the one the resolver returns with Ok; a target or path
\* that is set stays as it is; a fixture with a path has a target; and
\* once Runner::compile has returned Ok, as in every step of the driver,
\* every fixture has a target and a path.
C24_FixtureLifecycle ==
    /\ [](\A n \in 1..Len(tests) :
              /\ NotResolved(n) =>
                     tests[n].inferred_target = None /\ tests[n].path = None
              /\ IsSome(tests[n].path) => IsSome(tests[n].inferred_target)
              /\ (compiled = Ok \/ pc \in {"loop", "invoke", "evaluate", "done"}) =>
                     IsSome(tests[n].inferred_target) /\ IsSome(tests[n].path))
    /\ [][\A n \in 1..Len(tests) :
              /\ IsSome(tests[n].inferred_target) =>
                     tests'[n].inferred_target = tests[n].inferred_target
              /\ IsSome(tests[n].path) => tests'[n].path = tests[n].path
              /\ tests'[n].inferred_target # tests[n].inferred_target =>
                     /\ pc = "compile_tests" /\ n = cursor
                     /\ ResolverGives(tests[n]).result = Ok
                     /\ tests'[n].inferred_target = ResolverGives(tests[n]).target
              /\ tests'[n].path # tests[n].path =>
                     /\ pc = "compile_tests" /\ n = cursor
                     /\ IsSome(tests'[n].inferred_target)]_vars

\* The first of two fixtures has its target and its path, the resolution of
\* the second has failed and has left it without either.
C24_Witness ==
    /\ pc = "failed"
    /\ Len(tests) = 2
    /\ cursor = 2
    /\ IsSome(tests[1].inferred_target) /\ IsSome(tests[1].path)
    /\ compiled.kind = "inferring target for test"
    /\ tests[2].inferred_target = None /\ tests[2].path = None

-----------------------------------------------------------------------------
(* C30: the order of Runner::compile, and what a failure leaves on disk.   *)

DataDirectory == RootFile("", <<"data">>, Directory)

\* The files of the resources before the n-th.
ResourceFilesBefore(n) ==
    {RootFile("data", resources[m].filename, Bytes(resources[m].src)) :
        m \in 1..(n - 1)}

\* The source of a fixture as it is written: with the version of
\* --inject-wdl-version, if there is one.
WrittenSource(test) ==
    IF IsSome(options.inject_wdl_version)
    THEN inject_version(test.src, options.inject_wdl_version.val)
    ELSE test.src

\* The files of the fixtures before the n-th.
TestFilesBefore(n) ==
    {RootFile("", tests[m].file_name, Bytes(to_text(WrittenSource(tests[m])))) :
        m \in 1..(n - 1)}

\* The fixtures are all those of the markdown, each with its configuration.
AllExtracted ==
    /\ ~IsErr(Tests_compile(contents))
    /\ Len(tests) = Len(Tests_compile(contents).val)
    /\ \A n \in 1..Len(tests) :
           /\ tests[n].file_name = Tests_compile(contents).val[n].file_name
           /\ tests[n].config = Tests_compile(contents).val[n].config

\* C30: while the resources are written no fixture is extracted, and the
\* files of the resources before the current one are on disk; in the loop
\* over the fixtures, all fixtures of the markdown are extracted with their
\* configurations, and root_dir holds `data` with the files of all
\* resources and the files of the fixtures before the current one, as they
\* were written, and no other; so it is when the loop fails at a fixture,
\* and after a configuration that does not parse root_dir holds the
\* resources and no file of a fixture; nothing follows a failure; and a
\* fixture gets its target when the loop is at it.
C30_FixedOrderNoRollback ==
    /\ [](pc = "write_resources" =>
              /\ tests = << >>
              /\ root = {DataDirectory} \cup ResourceFilesBefore(cursor))
    /\ [](pc = "compile_tests" =>
              /\ AllExtracted
              /\ \A n \in 1..Len(tests) :
                     IsSome(tests[n].inferred_target) <=> n < cursor
              /\ root = {DataDirectory}
                            \cup ResourceFilesBefore(Len(resources) + 1)
                            \cup TestFilesBefore(cursor))
    /\ []((pc = "failed" /\ compiled.kind \in TestErrors) =>
              /\ AllExtracted
              /\ root = {DataDirectory}
                            \cup ResourceFilesBefore(Len(resources) + 1)
                            \cup TestFilesBefore(cursor))
    /\ []((pc = "failed" /\ compiled.kind = "parsing configuration") =>
              /\ tests = << >>
              /\ root = {DataDirectory}
                            \cup ResourceFilesBefore(Len(resources) + 1))
    /\ [][pc = "failed" => FALSE]_vars

\* Runner::compile has failed at the second fixture: the file of the first,
\* with the injected version, is on disk.
C30_Witness ==
    /\ pc = "failed"
    /\ compiled.kind \in TestErrors
    /\ Len(tests) = 2
    /\ cursor = 2
    /\ IsSome(options.inject_wdl_version)
    /\ TestFilesBefore(2) # {}
    /\ TestFilesBefore(2) \subseteq root
    /\ WrittenSource(tests[1]) # tests[1].src

====
